---- MODULE Spec2Model ----
(***************************************************************************)
(* ECG Research Console (operator UI): the attempt ledger kept by App, the *)
(* analytics computed from it, and the feature normalizer of the API       *)
(* client.                                                                 *)
(*                                                                         *)
(* Numbers that the program holds as fractions (scores, thresholds,        *)
(* quality indices, standard deviations) are modelled in hundredths:       *)
(* 0.85 is 85.  Optional values (T | undefined, T | null) are modelled as  *)
(* sequences of length 0 or 1, except optional strings, which use the      *)
(* string Undefined.                                                       *)
(***************************************************************************)
EXTENDS Integers, Sequences, FiniteSets, TLC

VARIABLES
    \* ---- App (src/unnamed/part_004, lines 54-161)
    activeTab,        \* useState<TabId>('participants')
    latestVerify,     \* useState<VerifyAttempt | null>(null)
    attemptLogs,      \* useState<VerifyAttempt[]>([])
    verifyPending,    \* verifyMutation: the variables of the call in flight
    nextId,           \* randomId(): the number of the next fresh identity
    \* ---- history (not program state)
    recorded,         \* the attempts handed to onSuccess, oldest first
    touched,          \* the ids a relabeling has matched
    lastOp,           \* the handler that ran last
    \* ---- AnalyticsTab (src/src/components/AnalyticsTab.tsx)
    attempts,         \* the attempts prop
    analytics,        \* what one render computes, none before the render
    \* ---- API client, normalizeFeatures (src/unnamed/part_004, lines 421-482)
    payload,          \* the raw backend feature payload
    hrv,              \* the hrv argument
    features,         \* the normalized EcgFeatureSet, none before the call
    \* ---- App, sessions and roster (src/unnamed/part_004, lines 56-147)
    selectedParticipantId, \* useState<string>()
    sessions,         \* sessionsQuery.data, none until a fetch has resolved
    aliasMap,         \* useLocalStorage('ui:fitbit-aliases', {})
    lastTrainingResult, \* useState<ModelTrainingResult | null>(null)
    lastTrainedAt,    \* useState<string | undefined>()
    trainPending,     \* trainMutation: the variables of the call in flight
    lastSucceeded,    \* history: the result of the training call that
                      \* succeeded last
    \* ---- App, the collect mutation (src/unnamed/part_004, lines 57, 109-125)
    latestSession,    \* useState<CollectSessionResponse | null>(null)
    collectPending,   \* collectMutation.isPending
    collectError,     \* collectMutation.error, none when there is no error
    collected,        \* environment: the sessions the backend has collected
    \* ---- EnrollmentWizard (src/src/components/EnrollmentWizard.tsx)
    step,             \* useState('instructions')
    progress,         \* useState(0), held as the elapsed milliseconds
                      \* clamped at CAPTURE_DURATION_MS
    pendingSession,   \* useState<CollectSessionResponse | null>(null)
    sessionSummary,   \* useState<CollectSessionResponse | null>(null)
    captureError,     \* useState<string | null>(null)
    captureComplete,  \* useState(false)
    awaiting,         \* startCapture of the mounted wizard is suspended at
                      \* its await
    outcome,          \* history: how the call of the last capture the
                      \* mounted wizard started has ended
    \* ---- the remote calls (src/unnamed/part_004, lines 623-667)
    inFlight,         \* environment: for each remote action, the number of
                      \* its calls that have been sent and have not returned
    \* ---- ContinuousMonitor (src/unnamed/part_005)
    sliderThreshold,  \* useState(0.85), in hundredths
    windowMinutes,    \* useState(15)
    strideMinutes,    \* useState(5)
    lastRun,          \* useState<ContinuousVerifyOptions | null>(null)
    latestResult,     \* the latestResult prop
    isRunning,        \* the isRunning prop
    submitted,        \* history: the options of the run request that was
                      \* submitted last, none before the first
    \* ---- useLocalStorage (src/src/hooks/useLocalStorage.ts)
    hasWindow,        \* environment: typeof window !== 'undefined'
    storageMode,      \* environment: "ok", "readonly" (setItem throws) or
                      \* "denied" (getItem and setItem throw)
    storageItem,      \* localStorage: the text under the key, none if absent
    hookMounted,      \* a component that uses the hook is mounted
    hookValue,        \* useState: value, none while no component is mounted
    raised,           \* an error has escaped the hook
    lastValue,        \* history: the value the hook held last
    lastWriteOk,      \* history: the write effect that ran last has written
    hookOp,           \* history: the step of the hook that ran last
    \* ---- VerificationPanel (src/src/components/VerificationPanel.tsx)
    panelThreshold,   \* useState(0.85), in hundredths
    impostorMode,     \* useState(false)
    panelNotes,       \* useState(''), the text of the notes field
    atClick,          \* history: impostor mode, notes text and (id, alias of the) selected
                      \* participant at the last click on Verify now
    \* ---- the sessions endpoint (src/unnamed/part_004, lines 66-69, 623-632)
    backend,          \* environment: the session records the backend lists
    fetchPending,     \* sessionsQuery: a fetch is in flight
    fetchAnswer,      \* environment: the list the fetch in flight returns,
                      \* none until the backend has answered it
    collectAnswer     \* environment: the session the collect call in flight
                      \* returns, none until the backend has answered it

appVars == <<activeTab, latestVerify, attemptLogs, verifyPending, nextId>>
histVars == <<recorded, touched, lastOp>>
anaVars == <<attempts, analytics>>
normVars == <<payload, hrv, features>>
rosterVars ==
    <<selectedParticipantId, sessions, aliasMap, lastTrainingResult,
      lastTrainedAt, trainPending, lastSucceeded>>
collectVars == <<latestSession, collectPending, collectError, collected>>
wizVars ==
    <<step, progress, pendingSession, sessionSummary, captureError,
      captureComplete, awaiting, outcome>>
consoleVars == <<rosterVars, collectVars, wizVars>>
monVars ==
    <<sliderThreshold, windowMinutes, strideMinutes, lastRun, latestResult,
      isRunning, submitted>>
hookVars ==
    <<hasWindow, storageMode, storageItem, hookMounted, hookValue, raised,
      lastValue, lastWriteOk, hookOp>>
panelVars == <<panelThreshold, impostorMode, panelNotes, atClick>>
fetchVars == <<backend, fetchPending, fetchAnswer, collectAnswer>>
sideVars == <<monVars, hookVars, panelVars, fetchVars>>
vars ==
    <<appVars, histVars, anaVars, normVars, consoleVars, inFlight, sideVars>>

Undefined == "undefined"
None == <<>>
Some(x) == <<x>>

Min(a, b) == IF a <= b THEN a ELSE b

\* the remote actions of the API client
RemoteActions == {"collect", "verify", "train", "continuous"}

\* a call of the action is sent
Calls(action) == inFlight' = [inFlight EXCEPT ![action] = @ + 1]

\* a call of the action returns, with a response or with an error
Returns(action) == inFlight' = [inFlight EXCEPT ![action] = @ - 1]

(***************************************************************************)
(* Bounds of the model.                                                    *)
(***************************************************************************)
\* verify calls completed in the specification Spec
MaxVerifies == 2
\* verify calls completed in the specification SpecCap (past the cap of 400)
MaxRecords == 401
\* clicks on "Verify now" in the specification SpecPanel
MaxClicks == 1
\* attempts handed to one render of AnalyticsTab
MaxAttempts == 4
\* records of an enumerated session list in the specification SpecRoster
MaxSessions == 2
\* collect calls that resolve successfully in the specification SpecWizard
MaxCaptures == 2
\* samples of a continuous-verify response in the specification SpecMonitor
MaxSamples == 3

(***************************************************************************)
(* App: the tabs, the verify mutation and the attempt ledger.              *)
(***************************************************************************)
tabs == {"participants", "enrollment", "verification", "analytics"}

\* [attempt, ...prev].slice(0, 400)
LogCap == 400

Labels == {"genuine", "impostor"}

\* adaptVerifyComparisons: baseline-<idx+1>, Session <idx+1>, Baseline #<idx+1>
adaptVerifyComparisons(scores) ==
    [idx \in 1..Len(scores) |->
        [id |-> idx, sessionLabel |-> idx, timestampLabel |-> idx,
         probability |-> scores[idx]]]

\* adaptVerifyResponse: id is randomId(), now is new Date().toISOString()
adaptVerifyResponse(response, id, now) ==
    [id |-> id,
     participantId |-> response.fitbitUserId,
     timestamp |-> IF response.ecgStartTime # None
                   THEN response.ecgStartTime[1] ELSE now,
     score |-> response.score,
     threshold |-> response.threshold,
     passed |-> response.authenticated,
     hrv |-> response.hrvDailyRmssd,
     comparisons |-> adaptVerifyComparisons(response.comparisonScores)]

\* an attempt that takes its label from the impostor mode of the panel at
\* the time the call resolves
verifyAttemptAtResolution(options, response, id, now) ==
    LET attempt == adaptVerifyResponse(response, id, now)
    IN  [id |-> attempt.id,
         participantId |-> attempt.participantId,
         timestamp |-> attempt.timestamp,
         score |-> attempt.score,
         threshold |-> attempt.threshold,
         passed |-> attempt.passed,
         hrv |-> attempt.hrv,
         comparisons |-> attempt.comparisons,
         label |-> IF impostorMode THEN "impostor" ELSE "genuine",
         notes |-> options.notes,
         alias |-> options.alias]

\* verifyAttempt: the adapted response with the options' label, notes, alias
verifyAttempt(options, response, id, now) ==
    LET attempt == adaptVerifyResponse(response, id, now)
    IN  [id |-> attempt.id,
         participantId |-> attempt.participantId,
         timestamp |-> attempt.timestamp,
         score |-> attempt.score,
         threshold |-> attempt.threshold,
         passed |-> attempt.passed,
         hrv |-> attempt.hrv,
         comparisons |-> attempt.comparisons,
         label |-> options.label,
         notes |-> options.notes,
         alias |-> options.alias]

\* a recording that forgets the cap
RecordNoCap(attempt, prev) == <<attempt>> \o prev

\* a recording that appends at the tail and so drops the newest on overflow
RecordAtTail(attempt, prev) ==
    SubSeq(prev \o <<attempt>>, 1, Min(Len(prev) + 1, LogCap))

\* setAttemptLogs((prev) => [attempt, ...prev].slice(0, 400))
RecordAttempt(attempt, prev) ==
    SubSeq(<<attempt>> \o prev, 1, Min(Len(prev) + 1, LogCap))

\* { ...attempt, label, notes }
WithLabel(attempt, label, notes) ==
    [attempt EXCEPT !.label = label, !.notes = notes]

\* a relabeling that falls back to the newest entry when the id is unknown
RelabelOrHead(prev, attemptId, label, notes) ==
    [i \in 1..Len(prev) |->
        IF prev[i].id = attemptId
           \/ (i = 1 /\ \A j \in 1..Len(prev) : prev[j].id # attemptId)
        THEN WithLabel(prev[i], label, notes) ELSE prev[i]]

\* a relabeling that rebuilds the matching entry from its id alone
RelabelRebuild(prev, attemptId, label, notes) ==
    [i \in 1..Len(prev) |->
        IF prev[i].id = attemptId
        THEN [prev[i] EXCEPT !.label = label, !.notes = notes,
                             !.passed = FALSE]
        ELSE prev[i]]

\* prev.map((attempt) => attempt.id === attemptId ? {...attempt, label, notes} : attempt)
RelabelLogs(prev, attemptId, label, notes) ==
    [i \in 1..Len(prev) |->
        IF prev[i].id = attemptId
        THEN WithLabel(prev[i], label, notes) ELSE prev[i]]

\* a relabeling that leaves the latest result as it is
RelabelLatestNever(prev, attemptId, label, notes) == prev

\* (prev) => prev?.id === attemptId ? { ...prev, label, notes } : prev
RelabelLatest(prev, attemptId, label, notes) ==
    IF prev # None /\ prev[1].id = attemptId
    THEN Some(WithLabel(prev[1], label, notes)) ELSE prev

IdsOf(logs) == {logs[i].id : i \in 1..Len(logs)}

\* onClick={() => setActiveTab(tab.id)}
SetActiveTab(tab) ==
    /\ activeTab' = tab
    /\ lastOp' = "tab"
    /\ UNCHANGED <<latestVerify, attemptLogs, verifyPending, nextId>>
    /\ UNCHANGED <<recorded, touched>>
    /\ UNCHANGED inFlight

\* VerificationPanel is rendered on the verification tab, and its button is
\* disabled while isVerifying; handleVerify calls verifyMutation.mutate.
handleVerify(threshold, label, notes, alias) ==
    /\ activeTab = "verification"
    /\ verifyPending = None
    /\ verifyPending' = Some([threshold |-> threshold, label |-> label,
                              notes |-> notes, alias |-> alias])
    /\ lastOp' = "verify"
    /\ UNCHANGED <<activeTab, latestVerify, attemptLogs, nextId>>
    /\ UNCHANGED <<recorded, touched>>
    /\ Calls("verify")

\* the attempt the call in flight resolves to
ResolvedAttempt(response, now) ==
    verifyAttempt(verifyPending[1], response, nextId, now)

\* verifyMutation.onSuccess
VerifyOnSuccess(response, now) ==
    /\ verifyPending # None
    /\ latestVerify' = Some(ResolvedAttempt(response, now))
    /\ attemptLogs' = RecordAttempt(ResolvedAttempt(response, now), attemptLogs)
    /\ activeTab' = "verification"
    /\ verifyPending' = None
    /\ nextId' = nextId + 1
    /\ lastOp' = "success"
    /\ UNCHANGED touched
    /\ Returns("verify")

\* the verify call resolves (the ledger's history is not kept)
VerifySucceeds(response, now) ==
    /\ VerifyOnSuccess(response, now)
    /\ UNCHANGED recorded

\* the verify call resolves, and the history keeps what was recorded
VerifySucceedsTracked(response, now) ==
    /\ VerifyOnSuccess(response, now)
    /\ recorded' = Append(recorded, ResolvedAttempt(response, now))

\* the verify call rejects: no onSuccess, the mutation is idle again
VerifyFails ==
    /\ verifyPending # None
    /\ verifyPending' = None
    /\ lastOp' = "error"
    /\ UNCHANGED <<activeTab, latestVerify, attemptLogs, nextId>>
    /\ UNCHANGED <<recorded, touched>>
    /\ Returns("verify")

\* handleLabelUpdate
handleLabelUpdate(attemptId, label, notes) ==
    /\ attemptLogs' = RelabelLogs(attemptLogs, attemptId, label, notes)
    /\ latestVerify' = RelabelLatest(latestVerify, attemptId, label, notes)
    /\ lastOp' = IF attemptId \in IdsOf(attemptLogs)
                 THEN "relabelHit" ELSE "relabelMiss"
    /\ UNCHANGED <<activeTab, verifyPending, nextId, recorded>>
    /\ UNCHANGED inFlight

\* a relabeling (the history is not kept)
Relabels(attemptId, label, notes) ==
    /\ handleLabelUpdate(attemptId, label, notes)
    /\ UNCHANGED touched

\* a relabeling, and the history keeps the id it matched
RelabelsTracked(attemptId, label, notes) ==
    /\ handleLabelUpdate(attemptId, label, notes)
    /\ touched' = touched \cup ({attemptId} \cap IdsOf(attemptLogs))

(***************************************************************************)
(* The inputs of the App specifications.                                   *)
(***************************************************************************)
\* VerifyApiResponse values the backend may send
VerifyResponses ==
    { [fitbitUserId |-> "user-1", authenticated |-> TRUE, score |-> 92,
       threshold |-> 85, ecgStartTime |-> Some(10), hrvDailyRmssd |-> None,
       comparisonScores |-> <<92, 83>>],
      [fitbitUserId |-> "user-2", authenticated |-> FALSE, score |-> 60,
       threshold |-> 85, ecgStartTime |-> None, hrvDailyRmssd |-> Some(40),
       comparisonScores |-> <<>>],
      [fitbitUserId |-> "user-1", authenticated |-> FALSE, score |-> 90,
       threshold |-> 85, ecgStartTime |-> None, hrvDailyRmssd |-> None,
       comparisonScores |-> <<90>>] }

ThresholdInputs == {85}
NotesInputs == {Undefined, "motion test"}
AliasInputs == {"Alice"}
NowInputs == {20}
RelabelIds == 0..MaxVerifies

AppInit ==
    /\ activeTab = "participants"
    /\ latestVerify = None
    /\ attemptLogs = <<>>
    /\ verifyPending = None
    /\ nextId = 1
    /\ recorded = <<>>
    /\ touched = {}
    /\ lastOp = "init"

AnaIdle ==
    /\ attempts = <<>>
    /\ analytics = None

NormIdle ==
    /\ payload = <<>>
    /\ hrv = None
    /\ features = None

\* {} as a Record<string, string>
EmptyMap == [key \in {} |-> ""]

\* the sessions, the aliases and the training state after construction
RosterInit ==
    /\ selectedParticipantId = None
    /\ sessions = None
    /\ aliasMap = EmptyMap
    /\ lastTrainingResult = None
    /\ lastTrainedAt = None
    /\ trainPending = None
    /\ lastSucceeded = None

\* the collect mutation after construction
CollectInit ==
    /\ latestSession = None
    /\ collectPending = FALSE
    /\ collectError = None
    /\ collected = 0

\* the state of a wizard that is not mounted (the values of its useState)
WizardInit ==
    /\ step = "instructions"
    /\ progress = 0
    /\ pendingSession = None
    /\ sessionSummary = None
    /\ captureError = None
    /\ captureComplete = FALSE
    /\ awaiting = FALSE
    /\ outcome = "none"

\* no call has been sent
CallsIdle == inFlight = [action \in RemoteActions |-> 0]

\* the continuous monitor after its first render, with an owner that has
\* no result and runs nothing
MonitorInit ==
    /\ sliderThreshold = 85
    /\ windowMinutes = 15
    /\ strideMinutes = 5
    /\ lastRun = None
    /\ latestResult = None
    /\ isRunning = FALSE
    /\ submitted = None

\* no component uses the hook and the key is absent
HookIdle ==
    /\ hasWindow = TRUE
    /\ storageMode = "ok"
    /\ storageItem = None
    /\ hookMounted = FALSE
    /\ hookValue = None
    /\ raised = FALSE
    /\ lastValue = None
    /\ lastWriteOk = FALSE
    /\ hookOp = "none"

\* the verification panel as a fresh mount has it, with no click yet
PanelIdle ==
    /\ panelThreshold = 85
    /\ impostorMode = FALSE
    /\ panelNotes = ""
    /\ atClick = None

\* a backend that lists nothing, and no fetch or collect answer in flight
FetchIdle ==
    /\ backend = <<>>
    /\ fetchPending = FALSE
    /\ fetchAnswer = None
    /\ collectAnswer = None

SideIdle == MonitorInit /\ HookIdle /\ PanelIdle /\ FetchIdle

ConsoleIdle == RosterInit /\ CollectInit /\ WizardInit /\ CallsIdle /\ SideIdle

Init ==
    /\ AppInit
    /\ AnaIdle
    /\ NormIdle
    /\ ConsoleIdle

Next ==
    \/ \E tab \in tabs : SetActiveTab(tab) /\ UNCHANGED <<anaVars, normVars, consoleVars, sideVars>>
    \/ \E threshold \in ThresholdInputs, label \in Labels,
          notes \in NotesInputs, alias \in AliasInputs :
          /\ nextId <= MaxVerifies
          /\ handleVerify(threshold, label, notes, alias)
          /\ UNCHANGED <<anaVars, normVars, consoleVars, sideVars>>
    \/ \E response \in VerifyResponses, now \in NowInputs :
          VerifySucceeds(response, now) /\ UNCHANGED <<anaVars, normVars, consoleVars, sideVars>>
    \/ VerifyFails /\ UNCHANGED <<anaVars, normVars, consoleVars, sideVars>>
    \/ \E attemptId \in RelabelIds, label \in Labels, notes \in NotesInputs :
          Relabels(attemptId, label, notes)
          /\ UNCHANGED <<anaVars, normVars, consoleVars, sideVars>>

Spec == Init /\ [][Next]_vars

(***************************************************************************)
(* SpecCap: the same handlers driven past the cap.  One response, one      *)
(* label; relabeling aims at an unknown id and at the two oldest ids.      *)
(***************************************************************************)
CapResponses ==
    { [fitbitUserId |-> "user-1", authenticated |-> TRUE, score |-> 92,
       threshold |-> 85, ecgStartTime |-> None, hrvDailyRmssd |-> None,
       comparisonScores |-> <<>>] }

CapRelabelIds == {0, 1, 2}

NextCap ==
    \/ SetActiveTab("verification") /\ UNCHANGED <<anaVars, normVars, consoleVars, sideVars>>
    \/ \E threshold \in ThresholdInputs, alias \in AliasInputs :
          /\ nextId <= MaxRecords
          /\ handleVerify(threshold, "genuine", Undefined, alias)
          /\ UNCHANGED <<anaVars, normVars, consoleVars, sideVars>>
    \/ \E response \in CapResponses :
          VerifySucceedsTracked(response, nextId)
          /\ UNCHANGED <<anaVars, normVars, consoleVars, sideVars>>
    \/ VerifyFails /\ UNCHANGED <<anaVars, normVars, consoleVars, sideVars>>
    \/ \E attemptId \in CapRelabelIds :
          RelabelsTracked(attemptId, "impostor", "motion test")
          /\ UNCHANGED <<anaVars, normVars, consoleVars, sideVars>>

SpecCap == Init /\ [][NextCap]_vars

(***************************************************************************)
(* The views of a verification attempt.                                    *)
(***************************************************************************)
\* ScoreMeter: const pass = score >= threshold; {pass ? 'PASS' : 'FAIL'}
ScoreMeter(score, threshold) ==
    IF score >= threshold THEN "PASS" ELSE "FAIL"

\* the Result column of the attempts log: {attempt.passed ? 'PASS' : 'FAIL'}
ResultColumn(attempt) ==
    IF attempt.passed THEN "PASS" ELSE "FAIL"

(***************************************************************************)
(* Claims on the attempt ledger.                                           *)
(***************************************************************************)
\* the fields of an attempt that relabeling leaves alone
Core(attempt) ==
    [id |-> attempt.id, participantId |-> attempt.participantId,
     timestamp |-> attempt.timestamp, score |-> attempt.score,
     threshold |-> attempt.threshold, passed |-> attempt.passed,
     hrv |-> attempt.hrv, comparisons |-> attempt.comparisons,
     alias |-> attempt.alias]

\* C1: after any sequence of record operations and relabel operations the
\* attempt ledger holds at most 400 entries.
C1_LedgerAtMostCap ==
    Len(attemptLogs) <= LogCap

\* C1 witness: 401 attempts were recorded, the ledger is full, and a
\* relabeling has just matched an entry of it.
C1_Witness ==
    /\ Len(recorded) = LogCap + 1
    /\ Len(attemptLogs) = LogCap
    /\ lastOp = "relabelHit"

\* C2: after n record operations the ledger is exactly the min(n, 400) most
\* recently recorded attempts, newest first: entry i is the (n - i + 1)th
\* recorded attempt (label and notes as recorded unless a relabeling matched
\* it).  So after 401 records it holds 400 entries, the 401st is at the
\* head and the first is gone.
C2_NewestFirstEvictOldest ==
    LET n == Len(recorded)
    IN  /\ Len(attemptLogs) = Min(n, LogCap)
        /\ \A i \in 1..Len(attemptLogs) :
              /\ Core(attemptLogs[i]) = Core(recorded[n - i + 1])
              /\ attemptLogs[i].id \notin touched
                    => attemptLogs[i] = recorded[n - i + 1]
        /\ n = LogCap + 1 =>
              /\ attemptLogs[1] = recorded[LogCap + 1]
              /\ recorded[1].id \notin IdsOf(attemptLogs)

\* C2 witness: 401 records and no relabeling; 400 entries are held, the 401st
\* recorded attempt is at the head and the first is no longer present.
C2_Witness ==
    /\ Len(recorded) = LogCap + 1
    /\ touched = {}
    /\ Len(attemptLogs) = LogCap
    /\ attemptLogs[1] = recorded[LogCap + 1]
    /\ attemptLogs[LogCap] = recorded[2]
    /\ \A i \in 1..Len(attemptLogs) : attemptLogs[i] # recorded[1]

\* C3: a relabeling whose attemptId matches no ledger entry leaves the
\* ledger (length, order, every field of every entry) and the latest
\* verification result unchanged.
C3_RelabelUnknownIdIsNoop ==
    [][\A attemptId \in RelabelIds, label \in Labels, notes \in NotesInputs :
          (attemptId \notin IdsOf(attemptLogs)
             /\ handleLabelUpdate(attemptId, label, notes))
          => (attemptLogs' = attemptLogs /\ latestVerify' = latestVerify)]_vars

\* C3 witness: a relabeling with an unknown id has just run on a ledger
\* that holds entries and with a latest result present.
C3_Witness ==
    /\ lastOp = "relabelMiss"
    /\ Len(attemptLogs) >= 2
    /\ latestVerify # None

\* C4: a relabeling whose attemptId is in the ledger changes only the label
\* and notes of the entries with that id: length and order are unchanged,
\* every other entry is unchanged, and the id, participantId, timestamp,
\* score, threshold, passed and comparisons of the relabeled entry are
\* unchanged.
C4_RelabelChangesOnlyLabelAndNotes ==
    [][\A attemptId \in RelabelIds, label \in Labels, notes \in NotesInputs :
          (attemptId \in IdsOf(attemptLogs)
             /\ handleLabelUpdate(attemptId, label, notes))
          => /\ Len(attemptLogs') = Len(attemptLogs)
             /\ \A i \in 1..Len(attemptLogs) :
                   /\ attemptLogs'[i].id = attemptLogs[i].id
                   /\ attemptLogs[i].id # attemptId
                         => attemptLogs'[i] = attemptLogs[i]
                   /\ attemptLogs[i].id = attemptId
                         => /\ Core(attemptLogs'[i]) = Core(attemptLogs[i])
                            /\ attemptLogs'[i].label = label
                            /\ attemptLogs'[i].notes = notes]_vars

\* C4 witness: a relabeling has just matched an entry of a ledger of two
\* entries, which now carry different labels.
C4_Witness ==
    /\ lastOp = "relabelHit"
    /\ Len(attemptLogs) = 2
    /\ attemptLogs[1].label # attemptLogs[2].label
    /\ attemptLogs[1].passed # attemptLogs[2].passed

\* C8: every PASS/FAIL verdict shown for an attempt (the score meter of the
\* latest result, the Result column of the attempts log) is the attempt's
\* backend-reported passed flag.
C8_VerdictIsBackendFlag ==
    /\ latestVerify # None =>
          ScoreMeter(latestVerify[1].score, latestVerify[1].threshold)
             = (IF latestVerify[1].passed THEN "PASS" ELSE "FAIL")
    /\ \A i \in 1..Len(attemptLogs) :
          ResultColumn(attemptLogs[i])
             = (IF attemptLogs[i].passed THEN "PASS" ELSE "FAIL")

(***************************************************************************)
(* AnalyticsTab: the rates one render computes from its attempts prop.     *)
(* A quotient of two counts is kept as the pair [num, den]; den = 0 stands *)
(* for the NaN of 0 / 0.                                                   *)
(***************************************************************************)
Quotient(num, den) == [num |-> num, den |-> den]

\* the literal 0 of "... : 0"
Zero == Quotient(0, 1)

\* a / b = c / d
SameRate(a, b) == a.num * b.den = b.num * a.den

\* attempts.filter((attempt) => attempt.label === 'genuine')
genuineAttempts(list) ==
    LET isGenuine(attempt) == attempt.label = "genuine"
    IN  SelectSeq(list, isGenuine)

\* attempts.filter((attempt) => attempt.label === 'impostor')
impostorAttempts(list) ==
    LET isImpostor(attempt) == attempt.label = "impostor"
    IN  SelectSeq(list, isImpostor)

\* a FAR that divides without looking at the length
farUnguarded(list) ==
    LET didPass(attempt) == attempt.passed
    IN  Quotient(Len(SelectSeq(impostorAttempts(list), didPass)),
                 Len(impostorAttempts(list)))

\* a FAR over all logged attempts
farOverAll(list) ==
    LET didPass(attempt) == attempt.passed
    IN  IF Len(impostorAttempts(list)) # 0
        THEN Quotient(Len(SelectSeq(impostorAttempts(list), didPass)), Len(list))
        ELSE Zero

\* far = impostorAttempts.length
\*         ? impostorAttempts.filter((a) => a.passed).length / impostorAttempts.length : 0
far(list) ==
    LET didPass(attempt) == attempt.passed
    IN  IF Len(impostorAttempts(list)) # 0
        THEN Quotient(Len(SelectSeq(impostorAttempts(list), didPass)),
                      Len(impostorAttempts(list)))
        ELSE Zero

\* an FRR that counts the genuine attempts that passed
frrOfPasses(list) ==
    LET didPass(attempt) == attempt.passed
    IN  IF Len(genuineAttempts(list)) # 0
        THEN Quotient(Len(SelectSeq(genuineAttempts(list), didPass)),
                      Len(genuineAttempts(list)))
        ELSE Zero

\* frr = genuineAttempts.length
\*         ? genuineAttempts.filter((a) => !a.passed).length / genuineAttempts.length : 0
frr(list) ==
    LET didFail(attempt) == ~attempt.passed
    IN  IF Len(genuineAttempts(list)) # 0
        THEN Quotient(Len(SelectSeq(genuineAttempts(list), didFail)),
                      Len(genuineAttempts(list)))
        ELSE Zero

\* eer = (far + frr) / 2
eer(list) ==
    Quotient(far(list).num * frr(list).den + frr(list).num * far(list).den,
             2 * far(list).den * frr(list).den)

\* the "Attempts logged" card: {attempts.length}
attemptsLogged(list) == Len(list)

\* one render of AnalyticsTab
AnalyticsTab ==
    /\ analytics = None
    /\ analytics' = Some([far |-> far(attempts), frr |-> frr(attempts),
                          eer |-> eer(attempts),
                          attemptsLogged |-> attemptsLogged(attempts)])
    /\ UNCHANGED <<attempts, appVars, histVars, normVars, consoleVars>>
    /\ UNCHANGED <<inFlight, sideVars>>

\* the attempts prop changes and the next render starts from it
AttemptsChange(list) ==
    /\ analytics # None
    /\ attempts' = list
    /\ analytics' = None
    /\ UNCHANGED <<appVars, histVars, normVars, consoleVars>>
    /\ UNCHANGED <<inFlight, sideVars>>

(***************************************************************************)
(* The inputs of SpecAnalytics: every list of at most MaxAttempts attempts *)
(* over the three labels and the two outcomes.                             *)
(***************************************************************************)
LabelOrNone == Labels \cup {Undefined}

SampleAttempt(id, label, passed) ==
    [id |-> id, participantId |-> "user-1", timestamp |-> id,
     score |-> IF passed THEN 92 ELSE 60, threshold |-> 85,
     passed |-> passed, hrv |-> None, comparisons |-> <<>>,
     label |-> label, notes |-> Undefined, alias |-> "Alice"]

AttemptLists ==
    UNION { { [i \in 1..n |-> SampleAttempt(i, kinds[i][1], kinds[i][2])] :
                kinds \in [1..n -> LabelOrNone \X BOOLEAN] } :
            n \in 0..MaxAttempts }

InitAnalytics ==
    /\ AppInit
    /\ NormIdle
    /\ ConsoleIdle
    /\ attempts \in AttemptLists
    /\ analytics = None

NextAnalytics ==
    \/ AnalyticsTab
    \/ \E label \in LabelOrNone, passed \in BOOLEAN :
          /\ Len(attempts) < MaxAttempts
          /\ AttemptsChange(
                Append(attempts,
                       SampleAttempt(Len(attempts) + 1, label, passed)))

SpecAnalytics == InitAnalytics /\ [][NextAnalytics]_vars

(***************************************************************************)
(* Claims on the analytics.                                                *)
(***************************************************************************)
NumLabeled(list, label) ==
    Cardinality({i \in 1..Len(list) : list[i].label = label})

NumLabeledWith(list, label, passed) ==
    Cardinality({i \in 1..Len(list) :
                    list[i].label = label /\ list[i].passed = passed})

\* the attempts that carry a label
Labeled(list) ==
    LET hasLabel(attempt) == attempt.label # Undefined
    IN  SelectSeq(list, hasLabel)

\* C5: the computed FAR is (impostor attempts that passed) / (impostor
\* attempts), and exactly 0, not NaN, when no attempt is labeled impostor.
C5_FarIsImpostorPassRate ==
    analytics # None =>
        /\ analytics[1].far.den > 0
        /\ analytics[1].far.num * NumLabeled(attempts, "impostor")
              = NumLabeledWith(attempts, "impostor", TRUE) * analytics[1].far.den
        /\ NumLabeled(attempts, "impostor") = 0 => analytics[1].far.num = 0

\* C5 witness: a render over three impostor attempts of which two passed,
\* beside a genuine one.
C5_Witness ==
    /\ analytics # None
    /\ NumLabeled(attempts, "impostor") = 3
    /\ NumLabeledWith(attempts, "impostor", TRUE) = 2
    /\ NumLabeled(attempts, "genuine") = 1
    /\ SameRate(analytics[1].far, Quotient(2, 3))

\* C6: the computed FRR is (genuine attempts that failed) / (genuine
\* attempts), and exactly 0 when no attempt is labeled genuine; with 2
\* genuine (1 pass, 1 fail) and 2 impostor (1 pass, 1 fail) attempts FAR,
\* FRR and the EER estimate (FAR + FRR) / 2 are all 0.5.
C6_FrrIsGenuineFailRate ==
    analytics # None =>
        /\ analytics[1].frr.den > 0
        /\ analytics[1].frr.num * NumLabeled(attempts, "genuine")
              = NumLabeledWith(attempts, "genuine", FALSE) * analytics[1].frr.den
        /\ NumLabeled(attempts, "genuine") = 0 => analytics[1].frr.num = 0
        /\ ( /\ Len(attempts) = 4
             /\ NumLabeledWith(attempts, "genuine", TRUE) = 1
             /\ NumLabeledWith(attempts, "genuine", FALSE) = 1
             /\ NumLabeledWith(attempts, "impostor", TRUE) = 1
             /\ NumLabeledWith(attempts, "impostor", FALSE) = 1 )
           => /\ SameRate(analytics[1].far, Quotient(1, 2))
              /\ SameRate(analytics[1].frr, Quotient(1, 2))
              /\ SameRate(analytics[1].eer, Quotient(1, 2))

\* C6 witness: a render over 2 genuine (1 pass, 1 fail) and 2 impostor
\* (1 pass, 1 fail) attempts.
C6_Witness ==
    /\ analytics # None
    /\ Len(attempts) = 4
    /\ NumLabeledWith(attempts, "genuine", TRUE) = 1
    /\ NumLabeledWith(attempts, "genuine", FALSE) = 1
    /\ NumLabeledWith(attempts, "impostor", TRUE) = 1
    /\ NumLabeledWith(attempts, "impostor", FALSE) = 1
    /\ SameRate(analytics[1].eer, Quotient(1, 2))

\* C7: attempts without a label do not influence the rates: FAR and FRR
\* are those of the list with every unlabeled attempt removed, while
\* "Attempts logged" is the full length of the list.
C7_UnlabeledDoNotCount ==
    analytics # None =>
        /\ analytics[1].far.den > 0 /\ far(Labeled(attempts)).den > 0
        /\ SameRate(analytics[1].far, far(Labeled(attempts)))
        /\ analytics[1].frr.den > 0 /\ frr(Labeled(attempts)).den > 0
        /\ SameRate(analytics[1].frr, frr(Labeled(attempts)))
        /\ analytics[1].attemptsLogged = Len(attempts)

\* C7 witness: a render over a list holding unlabeled attempts beside a
\* passed impostor and a failed genuine attempt, so both rates are above 0.
C7_Witness ==
    /\ analytics # None
    /\ NumLabeled(attempts, Undefined) = 2
    /\ NumLabeledWith(attempts, "impostor", TRUE) = 1
    /\ NumLabeledWith(attempts, "genuine", FALSE) = 1
    /\ analytics[1].attemptsLogged = 4
    /\ SameRate(analytics[1].far, Quotient(1, 1))
    /\ SameRate(analytics[1].frr, Quotient(1, 1))

(***************************************************************************)
(* API client: coerceNumber, evaluateSignalQuality, normalizeFeatures.     *)
(* A raw payload value is [k, n, s]: k is its JavaScript type and n or s   *)
(* its value; null and a missing key are k = "undefined".  A JavaScript    *)
(* number is [nan, v], v in hundredths (peakCount 10 is 1000, a signal     *)
(* quality score of 0.75 is 75).                                           *)
(***************************************************************************)
Undef == [k |-> "undefined", n |-> 0, s |-> ""]
Num(n) == [k |-> "number", n |-> n, s |-> ""]
Str(s) == [k |-> "string", n |-> 0, s |-> s]
\* a value that is neither a number nor a string (here the boolean true)
Flag == [k |-> "boolean", n |-> 0, s |-> ""]

N(v) == [nan |-> FALSE, v |-> v]
NaN == [nan |-> TRUE, v |-> 0]

\* a >= b, a <= b, a > b, a < b: false when either side is NaN
JsGe(a, b) == ~a.nan /\ ~b.nan /\ a.v >= b.v
JsLe(a, b) == ~a.nan /\ ~b.nan /\ a.v <= b.v
JsGt(a, b) == ~a.nan /\ ~b.nan /\ a.v > b.v
JsLt(a, b) == ~a.nan /\ ~b.nan /\ a.v < b.v

\* a - b
JsSub(a, b) == IF a.nan \/ b.nan THEN NaN ELSE N(a.v - b.v)

\* Math.max(a, b)
JsMax(a, b) ==
    IF a.nan \/ b.nan THEN NaN ELSE IF a.v >= b.v THEN a ELSE b

\* a ?? b
Coalesce(a, b) == IF a.k = "undefined" THEN b ELSE a

\* Number(value) of a string: the empty string is 0, a decimal literal is
\* its value, anything else is NaN
StringToNumber(s) ==
    CASE s = "" -> N(0)
      [] s = "0" -> N(0)
      [] s = "0.3" -> N(30)
      [] s = "0.75" -> N(75)
      [] s = "0.8" -> N(80)
      [] s = "72" -> N(7200)
      [] OTHER -> NaN

\* coerceNumber
coerceNumber(value) ==
    IF value.k = "number" THEN N(value.n)
    ELSE IF value.k = "string" THEN StringToNumber(value.s)
    ELSE N(0)

\* the classifier before the score rules were added
evaluateSignalQualityLegacy(fs) ==
    IF \/ JsLt(fs.peakCount, N(1000)) \/ JsLt(fs.std, N(5))
       \/ JsLt(fs.estimatedBpm, N(4000)) \/ JsGt(fs.estimatedBpm, N(16000))
    THEN "poor"
    ELSE IF JsLt(fs.peakCount, N(2500)) \/ JsLt(fs.std, N(8))
    THEN "medium"
    ELSE "good"

\* the classifier with its third branch removed
evaluateSignalQualityNoRule3(fs) ==
    IF JsGe(fs.signalQualityScore, N(75)) /\ JsLe(fs.motionArtifactIndex, N(35))
    THEN "good"
    ELSE IF JsGe(fs.signalQualityScore, N(50))
            /\ JsLe(fs.motionArtifactIndex, N(60))
    THEN "medium"
    ELSE IF \/ JsLt(fs.peakCount, N(1000)) \/ JsLt(fs.std, N(5))
            \/ JsLt(fs.estimatedBpm, N(4000))
            \/ JsGt(fs.estimatedBpm, N(16000))
    THEN "poor"
    ELSE IF JsLt(fs.peakCount, N(2500)) \/ JsLt(fs.std, N(8))
    THEN "medium"
    ELSE "good"

\* evaluateSignalQuality
evaluateSignalQuality(fs) ==
    IF JsGe(fs.signalQualityScore, N(75)) /\ JsLe(fs.motionArtifactIndex, N(35))
    THEN "good"
    ELSE IF JsGe(fs.signalQualityScore, N(50))
            /\ JsLe(fs.motionArtifactIndex, N(60))
    THEN "medium"
    ELSE IF JsGe(fs.signalQualityScore, N(50))
    THEN "medium"
    ELSE IF \/ JsLt(fs.peakCount, N(1000)) \/ JsLt(fs.std, N(5))
            \/ JsLt(fs.estimatedBpm, N(4000))
            \/ JsGt(fs.estimatedBpm, N(16000))
    THEN "poor"
    ELSE IF JsLt(fs.peakCount, N(2500)) \/ JsLt(fs.std, N(8))
    THEN "medium"
    ELSE "good"

\* the numeric fields of EcgFeatureSet and the PascalCase spelling of each
PascalKey ==
    [estimatedBpm |-> "EstimatedBpm", peakCount |-> "PeakCount",
     mean |-> "Mean", std |-> "Std", rms |-> "Rms", min |-> "Min",
     max |-> "Max", skewness |-> "Skewness", kurtosis |-> "Kurtosis",
     rrMeanMs |-> "RrMeanMs", rrStdMs |-> "RrStdMs",
     qrsWidthMs |-> "QrsWidthMs",
     lowFreqPowerRatio |-> "LowFreqPowerRatio",
     midFreqPowerRatio |-> "MidFreqPowerRatio",
     highFreqPowerRatio |-> "HighFreqPowerRatio",
     spectralCentroidHz |-> "SpectralCentroidHz",
     spectralEntropy |-> "SpectralEntropy",
     veryLowFreqPowerRatio |-> "VeryLowFreqPowerRatio",
     motionArtifactIndex |-> "MotionArtifactIndex",
     baselineDriftRatio |-> "BaselineDriftRatio",
     signalQualityScore |-> "SignalQualityScore",
     hrvDailyRmssd |-> "HrvDailyRmssd"]

NumericFields == DOMAIN PascalKey

PayloadKeys == NumericFields \cup {PascalKey[f] : f \in NumericFields}

\* a lookup that knows the PascalCase spelling only
SuppliedPascalOnly(p, f) == p[PascalKey[f]]

\* payload.<Pascal> ?? payload.<camel>
Supplied(p, f) == Coalesce(p[PascalKey[f]], p[f])

\* coerceNumber(payload.<Pascal> ?? payload.<camel>)
Coerced(p, f) == coerceNumber(Supplied(p, f))

\* rawSignalQualityScore > 0 ? rawSignalQualityScore
\*                           : Math.max(0, 1 - motionArtifactIndex)
signalQualityScore(p) ==
    IF JsGt(Coerced(p, "signalQualityScore"), N(0))
    THEN Coerced(p, "signalQualityScore")
    ELSE JsMax(N(0), JsSub(N(100), Coerced(p, "motionArtifactIndex")))

\* a normalization that keeps the backend's score and derives nothing
normalizeFeaturesNoFallback(p, h) ==
    LET normalized ==
            [f \in NumericFields \cup {"signalQuality"} |->
                IF f = "signalQuality" THEN "good"
                ELSE IF f = "hrvDailyRmssd" /\ h # None THEN N(h[1])
                ELSE Coerced(p, f)]
    IN  [normalized EXCEPT
            !["signalQuality"] = evaluateSignalQuality(normalized)]

\* normalizeFeatures: every numeric field coerced, the score derived, the
\* placeholder signalQuality 'good' replaced by the classification
normalizeFeatures(p, h) ==
    LET normalized ==
            [f \in NumericFields \cup {"signalQuality"} |->
                IF f = "signalQuality" THEN "good"
                ELSE IF f = "signalQualityScore" THEN signalQualityScore(p)
                ELSE IF f = "hrvDailyRmssd" /\ h # None THEN N(h[1])
                ELSE Coerced(p, f)]
    IN  [normalized EXCEPT
            !["signalQuality"] = evaluateSignalQuality(normalized)]

\* the signalQuality of a normalized feature set
QualityOf(fs) == fs["signalQuality"]

\* the client receives a payload and normalizes it
Normalize ==
    /\ features = None
    /\ features' = Some(normalizeFeatures(payload, hrv))
    /\ UNCHANGED <<payload, hrv, appVars, histVars, anaVars, consoleVars>>
    /\ UNCHANGED <<inFlight, sideVars>>

(***************************************************************************)
(* The inputs of SpecNormalize: payloads over the values around every      *)
(* boundary of the classifier, spelled in PascalCase, in camelCase, or in  *)
(* both (the camelCase key then holding a different value).                *)
(***************************************************************************)
ScoreValues ==
    {Undef, Num(0), Num(30), Num(50), Num(75), Num(-50),
     Str("abc"), Str("0.75")}
MotionValues ==
    {Undef, Num(0), Num(25), Num(26), Num(35), Num(36), Num(60), Num(61),
     Num(150)}
PeakValues ==
    {Undef, Num(900), Num(1000), Num(2400), Num(2500), Str("abc")}
StdValues == {Undef, Num(5), Num(8)}
BpmValues == {Undef, Num(3900), Num(4000), Num(16000), Num(16100)}
RrMeanValues == {Undef, Num(80000), Flag}
Casings == {"pascal", "camel", "both"}
HrvValues == {None, Some(4200)}

\* the value the camelCase key holds when both spellings are present
Decoy == Num(100)

BuildPayload(values, casing) ==
    [key \in PayloadKeys |->
        IF key \in NumericFields
        THEN IF casing = "camel"
             THEN IF key \in DOMAIN values THEN values[key] ELSE Undef
             ELSE IF casing = "both" THEN Decoy ELSE Undef
        ELSE LET f == CHOOSE g \in NumericFields : PascalKey[g] = key
             IN  IF casing # "camel" /\ f \in DOMAIN values
                 THEN values[f] ELSE Undef]

Payloads ==
    { BuildPayload([signalQualityScore |-> score,
                    motionArtifactIndex |-> motion,
                    peakCount |-> peak, std |-> dev, estimatedBpm |-> bpm,
                    rrMeanMs |-> rr],
                   casing) :
        score \in ScoreValues, motion \in MotionValues, peak \in PeakValues,
        dev \in StdValues, bpm \in BpmValues, rr \in RrMeanValues,
        casing \in Casings }

InitNormalize ==
    /\ AppInit
    /\ AnaIdle
    /\ ConsoleIdle
    /\ payload \in Payloads
    /\ hrv \in HrvValues
    /\ features = None

NextNormalize == Normalize

SpecNormalize == InitNormalize /\ [][NextNormalize]_vars

(***************************************************************************)
(* Claims on the signal quality of a normalized feature set.               *)
(***************************************************************************)
\* the six rules of the signal-quality policy, first match wins
SixRulePolicy(score, motion, peakCount, dev, bpm) ==
    CASE JsGe(score, N(75)) /\ JsLe(motion, N(35)) -> "good"
      [] ~(JsGe(score, N(75)) /\ JsLe(motion, N(35)))
         /\ JsGe(score, N(50)) -> "medium"
      [] ~JsGe(score, N(50))
         /\ (\/ JsLt(peakCount, N(1000)) \/ JsLt(dev, N(5))
             \/ JsLt(bpm, N(4000)) \/ JsGt(bpm, N(16000))) -> "poor"
      [] ~JsGe(score, N(50))
         /\ ~(\/ JsLt(peakCount, N(1000)) \/ JsLt(dev, N(5))
              \/ JsLt(bpm, N(4000)) \/ JsGt(bpm, N(16000)))
         /\ (JsLt(peakCount, N(2500)) \/ JsLt(dev, N(8))) -> "medium"
      [] OTHER -> "good"

\* max(0, 1 - motionArtifactIndex)
DerivedScore(p) ==
    JsMax(N(0), JsSub(N(100), Coerced(p, "motionArtifactIndex")))

\* the effective score of the claim as written: the raw score when it is
\* supplied and non-zero
EffectiveIfNonZero(p) ==
    IF Supplied(p, "signalQualityScore") # Undef
       /\ Coerced(p, "signalQualityScore") # N(0)
    THEN Coerced(p, "signalQualityScore")
    ELSE DerivedScore(p)

\* the effective score of the amended claim: the raw score when it is
\* supplied and greater than 0
EffectiveIfPositive(p) ==
    IF Supplied(p, "signalQualityScore") # Undef
       /\ JsGt(Coerced(p, "signalQualityScore"), N(0))
    THEN Coerced(p, "signalQualityScore")
    ELSE DerivedScore(p)

PolicyOn(score, p) ==
    SixRulePolicy(score, Coerced(p, "motionArtifactIndex"),
                  Coerced(p, "peakCount"), Coerced(p, "std"),
                  Coerced(p, "estimatedBpm"))

\* C9 as written: the signalQuality of the normalized features is the
\* six-rule policy applied to the effective score, the raw score when it is
\* supplied and non-zero and max(0, 1 - motionArtifactIndex) otherwise.
C9_PolicyOnNonZeroScore ==
    features # None =>
        QualityOf(features[1]) = PolicyOn(EffectiveIfNonZero(payload), payload)

\* C9 amended: the signalQuality of the normalized features is the six-rule
\* policy applied to the effective score, the raw score when it is supplied
\* and greater than 0 and max(0, 1 - motionArtifactIndex) otherwise; an
\* effective score >= 0.75 with motionArtifactIndex <= 0.35 yields good.
C9_PolicyOnPositiveScore ==
    features # None =>
        /\ features[1].signalQualityScore = EffectiveIfPositive(payload)
        /\ QualityOf(features[1])
              = PolicyOn(EffectiveIfPositive(payload), payload)
        /\ ( /\ JsGe(EffectiveIfPositive(payload), N(75))
             /\ JsLe(Coerced(payload, "motionArtifactIndex"), N(35)) )
           => QualityOf(features[1]) = "good"

\* C9 witness: a negative raw score with a motion index of 0.25 and too few
\* peaks: the score falls back to 0.75 and the features are good.
C9_Witness ==
    /\ features # None
    /\ Supplied(payload, "signalQualityScore") = Num(-50)
    /\ Supplied(payload, "motionArtifactIndex") = Num(25)
    /\ Supplied(payload, "peakCount") = Num(900)
    /\ features[1].signalQualityScore = N(75)
    /\ QualityOf(features[1]) = "good"

\* C10: a record whose signalQualityScore and motionArtifactIndex are both
\* absent or 0 gets the derived score 1 and is classified good, whatever
\* its peakCount, std and estimatedBpm.
C10_BothZeroIsGood ==
    ( /\ features # None
      /\ Supplied(payload, "signalQualityScore") \in {Undef, Num(0)}
      /\ Supplied(payload, "motionArtifactIndex") \in {Undef, Num(0)} )
    => /\ features[1].signalQualityScore = N(100)
       /\ QualityOf(features[1]) = "good"

\* C10 witness: the empty payload normalized: peakCount, std and
\* estimatedBpm are 0, the score is 1 and the features are good.
C10_Witness ==
    /\ features # None
    /\ \A key \in PayloadKeys : payload[key] = Undef
    /\ features[1].peakCount = N(0)
    /\ features[1].estimatedBpm = N(0)
    /\ features[1].signalQualityScore = N(100)
    /\ QualityOf(features[1]) = "good"

(***************************************************************************)
(* Claims on the branches of the signal-quality policy.                    *)
(***************************************************************************)
\* the six-rule policy with rule 2 (score >= 0.5 and motion <= 0.6 gives
\* medium) removed
PolicyWithoutRule2(fs) ==
    CASE JsGe(fs.signalQualityScore, N(75))
         /\ JsLe(fs.motionArtifactIndex, N(35)) -> "good"
      [] ~(JsGe(fs.signalQualityScore, N(75))
           /\ JsLe(fs.motionArtifactIndex, N(35)))
         /\ JsGe(fs.signalQualityScore, N(50)) -> "medium"
      [] OTHER -> evaluateSignalQualityLegacy(fs)

\* rule 3 is the first rule that matches: rules 1 and 2 do not, and the
\* score is at least 0.5
Rule3Decides(fs) ==
    /\ JsGe(fs.signalQualityScore, N(50))
    /\ ~JsLe(fs.motionArtifactIndex, N(60))
    /\ ~(JsGe(fs.signalQualityScore, N(75))
         /\ JsLe(fs.motionArtifactIndex, N(35)))

\* C11 as written: rule 3 is redundant: the classification of the
\* normalized features is the one the policy without rule 3 produces.
C11_Rule3Redundant ==
    features # None =>
        QualityOf(features[1]) = evaluateSignalQualityNoRule3(features[1])

\* C11 amended: rule 2 is the redundant one: the classification is the one
\* the policy without rule 2 produces; removing rule 3 keeps the
\* classification of every input that rule 3 does not decide (score < 0.5 or
\* motionArtifactIndex <= 0.6), and rule 3 decides medium.
C11_Rule2Redundant ==
    features # None =>
        /\ QualityOf(features[1]) = PolicyWithoutRule2(features[1])
        /\ ~Rule3Decides(features[1])
              => QualityOf(features[1])
                    = evaluateSignalQualityNoRule3(features[1])
        /\ Rule3Decides(features[1]) => QualityOf(features[1]) = "medium"

\* C11 witness: a score of 0.5 with a motion index of 0.61 and 9 peaks:
\* rule 3 grades it medium, and rules 4 to 6 alone would grade it poor.
C11_Witness ==
    /\ features # None
    /\ features[1].signalQualityScore = N(50)
    /\ features[1].motionArtifactIndex = N(61)
    /\ features[1].peakCount = N(900)
    /\ Rule3Decides(features[1])
    /\ QualityOf(features[1]) = "medium"
    /\ evaluateSignalQualityNoRule3(features[1]) = "poor"

(***************************************************************************)
(* Claims on the key casing and the coercion of a payload.                 *)
(***************************************************************************)
\* the camelCase spelling of each PascalCase key
CamelKey ==
    [key \in {PascalKey[f] : f \in NumericFields} |->
        CHOOSE f \in NumericFields : PascalKey[f] = key]

\* the payload with the same values under the other casing of every key
SwapCasing(p) ==
    [key \in PayloadKeys |->
        IF key \in NumericFields THEN p[PascalKey[key]] ELSE p[CamelKey[key]]]

AllPascal(p) == \A f \in NumericFields : p[f] = Undef
AllCamel(p) == \A f \in NumericFields : p[PascalKey[f]] = Undef

\* C12: a payload whose keys are all PascalCase and the payload with the
\* same values under camelCase keys normalize to identical feature sets
\* (every numeric field and signalQuality equal).
C12_CasingDoesNotMatter ==
    (features # None /\ (AllPascal(payload) \/ AllCamel(payload)))
    => features[1] = normalizeFeatures(SwapCasing(payload), hrv)

\* C12 witness: an all-PascalCase payload with a score, a motion index, a
\* peak count and an RR mean, normalized to medium features; its camelCase
\* twin is a different payload.
C12_Witness ==
    /\ features # None
    /\ AllPascal(payload)
    /\ payload["SignalQualityScore"] = Num(50)
    /\ payload["MotionArtifactIndex"] = Num(61)
    /\ payload["PeakCount"] = Num(2400)
    /\ payload["RrMeanMs"] = Num(80000)
    /\ SwapCasing(payload) # payload
    /\ AllCamel(SwapCasing(payload))
    /\ features[1].rrMeanMs = N(80000)
    /\ QualityOf(features[1]) = "medium"

\* the strings that spell a number, and the number each spells (hundredths)
NumericStrings ==
    [s \in {"0", "0.3", "0.75", "0.8", "72"} |->
        CASE s = "0" -> 0 [] s = "0.3" -> 30 [] s = "0.75" -> 75
          [] s = "0.8" -> 80 [] s = "72" -> 7200]

\* the number a backend value is to be coerced to: a number is itself, a
\* numeric string its value, anything else 0
CoercionTarget(value) ==
    IF value.k = "number" THEN N(value.n)
    ELSE IF value.k = "string" /\ value.s \in DOMAIN NumericStrings
    THEN N(NumericStrings[value.s])
    ELSE N(0)

\* the fields that normalization copies from the payload after coercion
CopiedFields(h) ==
    NumericFields \ ({"signalQualityScore"}
                     \cup IF h # None THEN {"hrvDailyRmssd"} ELSE {})

\* C13: every numeric field of the normalized feature set is a concrete
\* number (never NaN): a value that is missing, null, of a non-numeric type
\* or a malformed string is coerced to 0, a numeric string to its value.
C13_CoercedToConcreteNumbers ==
    features # None =>
        /\ \A f \in NumericFields : ~features[1][f].nan
        /\ \A f \in CopiedFields(hrv) :
              features[1][f] = CoercionTarget(Supplied(payload, f))

(***************************************************************************)
(* App: the session list, the participant roster computed from it, the     *)
(* alias overlay and the training overlay.  A session start time is the    *)
(* number of milliseconds new Date(ecgStartTime).getTime() gives; an       *)
(* enrollment progress is a quotient [num, den].                           *)
(***************************************************************************)
\* progressFromSessions: the sessions that make a full enrollment
EnrollmentTarget == 12

\* the strings used as participant identities, in the order of the
\* JavaScript comparison a > b
StringOrder == <<"", "user-a", "user-b">>

\* a > b on strings
StringGt(a, b) ==
    (CHOOSE i \in 1..Len(StringOrder) : StringOrder[i] = a)
        > (CHOOSE i \in 1..Len(StringOrder) : StringOrder[i] = b)

\* a progress that is not clamped
progressUnclamped(count) == Quotient(count, EnrollmentTarget)

\* progressFromSessions: Math.min(1, count / 12)
progressFromSessions(count) ==
    IF count < EnrollmentTarget
    THEN Quotient(count, EnrollmentTarget) ELSE Quotient(1, 1)

\* a grouping that also keeps the records without an identity
GroupSessionKeepAnonymous(grouped, session) ==
    LET known == {i \in 1..Len(grouped) : grouped[i].id = session.fitbitUserId}
        entry == IF known # {} THEN grouped[CHOOSE i \in known : TRUE]
                 ELSE [id |-> session.fitbitUserId, sessionCount |-> 0,
                       lastSessionAt |-> None]
        counted == [entry EXCEPT !.sessionCount = @ + 1]
    IN  IF known # {}
        THEN [grouped EXCEPT ![CHOOSE i \in known : TRUE] = counted]
        ELSE Append(grouped, counted)

\* the body of sessions.forEach: a record without fitbitUserId is skipped;
\* otherwise the entry of its identity (a new one with sessionCount 0 if
\* there is none) gets its count raised and its lastSessionAt moved to the
\* record's start time if that is later, and is put back in the map
GroupSession(grouped, session) ==
    IF session.fitbitUserId = "" THEN grouped
    ELSE
    LET known == {i \in 1..Len(grouped) : grouped[i].id = session.fitbitUserId}
        entry == IF known # {} THEN grouped[CHOOSE i \in known : TRUE]
                 ELSE [id |-> session.fitbitUserId, sessionCount |-> 0,
                       lastSessionAt |-> None]
        counted == [entry EXCEPT !.sessionCount = @ + 1]
        timed ==
            IF /\ session.ecgStartTime # None
               /\ \/ counted.lastSessionAt = None
                  \/ session.ecgStartTime[1] > counted.lastSessionAt[1]
            THEN [counted EXCEPT !.lastSessionAt = session.ecgStartTime]
            ELSE counted
    IN  IF known # {}
        THEN [grouped EXCEPT ![CHOOSE i \in known : TRUE] = timed]
        ELSE Append(grouped, timed)

\* the one element of a singleton set ({F(x) : x \in {e}} computes e once)
The(singleton) == CHOOSE element \in singleton : TRUE

\* the map after sessions.forEach, its entries in insertion order
GroupSessions(list) ==
    LET grouped[n \in 0..Len(list)] ==
            IF n = 0 THEN <<>>
            ELSE The({GroupSession(map, list[n]) : map \in {grouped[n - 1]}})
    IN  grouped[Len(list)]

\* Array.from(grouped.entries()).map(...): each entry with its enrollment
\* progress (no alias, no model status)
ParticipantsOfEntries(entries) ==
    [k \in 1..Len(entries) |->
        [id |-> entries[k].id,
         sessionCount |-> entries[k].sessionCount,
         lastSessionAt |-> entries[k].lastSessionAt,
         enrollmentProgress |-> progressFromSessions(entries[k].sessionCount),
         alias |-> Undefined,
         modelStatus |-> None]]

\* buildParticipantsFromSessions
buildParticipantsFromSessions(list) ==
    The({ParticipantsOfEntries(entries) : entries \in {GroupSessions(list)}})

\* base.sort((a, b) => (a.id > b.id ? 1 : -1)): the ids are distinct
SortById(list) ==
    LET place(i) ==
            1 + Cardinality({j \in 1..Len(list) :
                                StringGt(list[i].id, list[j].id)})
    IN  [k \in 1..Len(list) |->
            list[CHOOSE i \in 1..Len(list) : place(i) = k]]

\* aliasMap[participant.id] ?? participant.alias
aliasOf(participant, aliases) ==
    IF participant.id \in DOMAIN aliases
    THEN aliases[participant.id] ELSE participant.alias

\* an overlay that reaches the training-ready participants only
modelStatusIfReady(participant, result, trainedAt) ==
    IF result # None /\ participant.sessionCount >= 10
    THEN Some([trainedPairs |-> result[1].pairCount,
               lastTrainedAt |-> trainedAt,
               accuracy |-> result[1].accuracy,
               auc |-> result[1].areaUnderRocCurve,
               f1 |-> result[1].f1Score])
    ELSE participant.modelStatus

\* lastTrainingResult ? { trainedPairs, lastTrainedAt, accuracy, auc, f1 }
\*                    : participant.modelStatus
modelStatusOf(participant, result, trainedAt) ==
    IF result # None
    THEN Some([trainedPairs |-> result[1].pairCount,
               lastTrainedAt |-> trainedAt,
               accuracy |-> result[1].accuracy,
               auc |-> result[1].areaUnderRocCurve,
               f1 |-> result[1].f1Score])
    ELSE participant.modelStatus

\* .map((participant) => ({ ...participant, alias, modelStatus }))
Overlay(sorted, aliases, result, trainedAt) ==
    [k \in 1..Len(sorted) |->
        [sorted[k] EXCEPT
            !.alias = aliasOf(sorted[k], aliases),
            !.modelStatus = modelStatusOf(sorted[k], result, trainedAt)]]

\* the participants memo of (sessionsQuery.data, aliasMap,
\* lastTrainingResult, lastTrainedAt)
participantsOf(data, aliases, result, trainedAt) ==
    The({Overlay(sorted, aliases, result, trainedAt) :
            sorted \in {SortById(base) :
                base \in {buildParticipantsFromSessions(list) :
                    list \in {IF data # None THEN data[1] ELSE <<>>}}}})

\* the roster of the current state
participants ==
    participantsOf(sessions, aliasMap, lastTrainingResult, lastTrainedAt)

RosterIds == {participants[k].id : k \in 1..Len(participants)}

\* the effect on [participants, selectedParticipantId]: with no selection
\* and a roster that is not empty, the first participant is selected
AutoSelect(selected, roster) ==
    IF selected = None /\ Len(roster) > 0 THEN Some(roster[1].id)
    ELSE selected

\* fetchSessions resolves (the first load, "Refresh data" or a refetch) and
\* the query data is replaced
FetchSessionsResolves(list) ==
    /\ sessions' = Some(list)
    /\ selectedParticipantId' =
          AutoSelect(selectedParticipantId,
                     participantsOf(Some(list), aliasMap,
                                    lastTrainingResult, lastTrainedAt))
    /\ UNCHANGED <<aliasMap, lastTrainingResult, lastTrainedAt,
                   trainPending, lastSucceeded>>
    /\ UNCHANGED inFlight

\* setSelectedParticipantId: a row of the participants table is clicked, or
\* a participant is chosen in the select of the wizard or of the panel
onSelectParticipant(id) ==
    /\ activeTab \in {"participants", "enrollment", "verification"}
    /\ id \in RosterIds
    /\ selectedParticipantId' = Some(id)
    /\ UNCHANGED <<sessions, aliasMap, lastTrainingResult, lastTrainedAt,
                   trainPending, lastSucceeded>>
    /\ UNCHANGED inFlight

\* String.prototype.trim on the drafts typed into an alias input
Trim(draft) ==
    CASE draft = " Al " -> "Al"
      [] draft = "   " -> ""
      [] OTHER -> draft

\* an alias update that forgets the aliases stored before
handleAliasChangeForgetful(participantId, alias) ==
    /\ aliasMap' = [key \in {participantId} |-> alias]
    /\ UNCHANGED <<selectedParticipantId, sessions, lastTrainingResult,
                   lastTrainedAt, trainPending, lastSucceeded>>
    /\ UNCHANGED inFlight

\* handleAliasChange: setAliasMap((prev) => ({ ...prev, [participantId]: alias }))
handleAliasChange(participantId, alias) ==
    /\ aliasMap' = [key \in DOMAIN aliasMap \cup {participantId} |->
                       IF key = participantId THEN alias ELSE aliasMap[key]]
    /\ UNCHANGED <<selectedParticipantId, sessions, lastTrainingResult,
                   lastTrainedAt, trainPending, lastSucceeded>>
    /\ UNCHANGED inFlight

\* ParticipantsTab, handleAliasCommit: the alias input of a row loses the
\* focus and its trimmed draft is handed to onAliasChange
handleAliasCommit(participantId, draft) ==
    /\ activeTab = "participants"
    /\ participantId \in RosterIds
    /\ handleAliasChange(participantId, Trim(draft))

\* "Train now" (disabled while training): handleTrain calls
\* trainMutation.mutate(maxPairs)
handleTrain(maxPairs) ==
    /\ activeTab = "participants"
    /\ trainPending = None
    /\ trainPending' = Some(maxPairs)
    /\ UNCHANGED <<selectedParticipantId, sessions, aliasMap,
                   lastTrainingResult, lastTrainedAt, lastSucceeded>>
    /\ Calls("train")

\* trainMutation.onSuccess
TrainSucceeds(result, now) ==
    /\ trainPending # None
    /\ lastTrainingResult' = Some(result)
    /\ lastTrainedAt' = Some(now)
    /\ trainPending' = None
    /\ lastSucceeded' = Some(result)
    /\ UNCHANGED <<selectedParticipantId, sessions, aliasMap>>
    /\ Returns("train")

\* the training call rejects: no onSuccess, the mutation is idle again
TrainFails ==
    /\ trainPending # None
    /\ trainPending' = None
    /\ UNCHANGED <<selectedParticipantId, sessions, aliasMap,
                   lastTrainingResult, lastTrainedAt, lastSucceeded>>
    /\ Returns("train")

(***************************************************************************)
(* The inputs of SpecRoster: every session list of at most MaxSessions     *)
(* records over a few sample records, three long lists around the          *)
(* enrollment target and one mixed list.                                   *)
(***************************************************************************)
\* an EcgSessionRecord (the fields the roster reads)
Session(documentId, fitbitUserId, ecgStartTime) ==
    [documentId |-> documentId, fitbitUserId |-> fitbitUserId,
     ecgStartTime |-> ecgStartTime]

\* [fitbitUserId, ecgStartTime] of the sample records
SampleSessions ==
    { <<"", Some(300)>>, <<"user-b", None>>,
      <<"user-a", Some(100)>>, <<"user-a", Some(300)>> }

ShortLists ==
    { [k \in DOMAIN samples |-> Session(k, samples[k][1], samples[k][2])] :
        samples \in UNION {[1..n -> SampleSessions] : n \in 0..MaxSessions} }

\* countB sessions of user-b followed by countA sessions of user-a
Crowd(countA, countB) ==
    [k \in 1..(countA + countB) |->
        Session(k, IF k <= countB THEN "user-b" ELSE "user-a", Some(k))]

LongLists ==
    { Crowd(EnrollmentTarget - 1, 1),
      Crowd(EnrollmentTarget, EnrollmentTarget + 1),
      Crowd(2 * EnrollmentTarget, EnrollmentTarget) }

\* a record without identity, one of user-b, two of user-a (the later first)
MixedList ==
    << Session(1, "", Some(300)), Session(2, "user-b", None),
       Session(3, "user-a", Some(300)), Session(4, "user-a", Some(100)) >>

SessionLists == ShortLists \cup LongLists \cup {MixedList}

AliasDrafts == {"Al", " Al ", "   "}

TrainingResults ==
    { [modelPath |-> "models/ecg-1.zip", accuracy |-> 91,
       areaUnderRocCurve |-> 95, f1Score |-> 90, sessionCount |-> 24,
       pairCount |-> 300],
      [modelPath |-> "models/ecg-2.zip", accuracy |-> 88,
       areaUnderRocCurve |-> 93, f1Score |-> 87, sessionCount |-> 36,
       pairCount |-> 500] }

MaxPairsInputs == {500}

\* the App state after one verification has been recorded and the operator
\* is back on the participants tab
AppAfterVerify ==
    LET attempt ==
            verifyAttempt([threshold |-> 85, label |-> "genuine",
                           notes |-> Undefined, alias |-> "Alice"],
                          CHOOSE response \in CapResponses : TRUE, 1, 20)
    IN  /\ activeTab = "participants"
        /\ latestVerify = Some(attempt)
        /\ attemptLogs = <<attempt>>
        /\ verifyPending = None
        /\ nextId = 2
        /\ recorded = <<>>
        /\ touched = {}
        /\ lastOp = "tab"

InitRoster ==
    /\ AppInit \/ AppAfterVerify
    /\ AnaIdle
    /\ NormIdle
    /\ RosterInit
    /\ CollectInit
    /\ WizardInit
    /\ CallsIdle
    /\ SideIdle

NextRoster ==
    \/ \E list \in SessionLists :
          FetchSessionsResolves(list)
          /\ UNCHANGED <<appVars, histVars, anaVars, normVars, sideVars>>
          /\ UNCHANGED <<collectVars, wizVars>>
    \/ \E id \in {"user-a", "user-b"} :
          onSelectParticipant(id)
          /\ UNCHANGED <<appVars, histVars, anaVars, normVars, sideVars>>
          /\ UNCHANGED <<collectVars, wizVars>>
    \/ \E id \in {"user-a", "user-b"}, draft \in AliasDrafts :
          handleAliasCommit(id, draft)
          /\ UNCHANGED <<appVars, histVars, anaVars, normVars, sideVars>>
          /\ UNCHANGED <<collectVars, wizVars>>
    \/ \E maxPairs \in MaxPairsInputs :
          handleTrain(maxPairs)
          /\ UNCHANGED <<appVars, histVars, anaVars, normVars, sideVars>>
          /\ UNCHANGED <<collectVars, wizVars>>
    \/ \E result \in TrainingResults, now \in NowInputs :
          TrainSucceeds(result, now)
          /\ UNCHANGED <<appVars, histVars, anaVars, normVars, sideVars>>
          /\ UNCHANGED <<collectVars, wizVars>>
    \/ /\ TrainFails
       /\ UNCHANGED <<appVars, histVars, anaVars, normVars, sideVars>>
       /\ UNCHANGED <<collectVars, wizVars>>

SpecRoster == InitRoster /\ [][NextRoster]_vars

(***************************************************************************)
(* Claims on the participant roster.                                       *)
(***************************************************************************)
\* the working session list (empty until a fetch has resolved)
SessionList == IF sessions # None THEN sessions[1] ELSE <<>>

\* the records of a list that carry the identity id
RecordsOf(list, id) == {k \in 1..Len(list) : list[k].fitbitUserId = id}

\* the distinct non-empty identities of a list
IdentitiesOf(list) ==
    {list[k].fitbitUserId : k \in 1..Len(list)} \ {""}

\* C14: the roster has exactly one participant per distinct non-empty
\* participant identity of the session list (records without an identity
\* contribute nothing), and each participant's sessionCount is the number
\* of records carrying that identity.
C14_OneParticipantPerIdentity ==
    /\ Len(participants) = Cardinality(IdentitiesOf(SessionList))
    /\ RosterIds = IdentitiesOf(SessionList)
    /\ \A k \in 1..Len(participants) :
          participants[k].sessionCount
             = Cardinality(RecordsOf(SessionList, participants[k].id))

\* C14 witness: a list of a record without identity, one of user-b and two
\* of user-a: the roster is user-a with 2 sessions, then user-b with 1.
C14_Witness ==
    /\ SessionList = MixedList
    /\ RecordsOf(SessionList, "") # {}
    /\ Len(participants) = 2
    /\ participants[1].id = "user-a" /\ participants[1].sessionCount = 2
    /\ participants[2].id = "user-b" /\ participants[2].sessionCount = 1

\* a <= b on quotients with positive denominators
RateLe(a, b) == a.num * b.den <= b.num * a.den

\* C15: enrollmentProgress is min(1, sessionCount / 12): non-decreasing in
\* sessionCount, never above 1 (12 and 24 sessions both give 1), 0 for 0
\* sessions; every participant of the roster has a progress in (0, 1].
C15_ProgressClampedAndMonotone ==
    /\ \A k \in 1..Len(participants) :
          LET ratio == participants[k].enrollmentProgress
              count == participants[k].sessionCount
          IN  /\ ratio.den > 0
              /\ ratio.num * EnrollmentTarget
                    = Min(count, EnrollmentTarget) * ratio.den
              /\ ratio.num > 0
              /\ RateLe(ratio, Quotient(1, 1))
    /\ \A k, l \in 1..Len(participants) :
          participants[k].sessionCount <= participants[l].sessionCount
             => RateLe(participants[k].enrollmentProgress,
                       participants[l].enrollmentProgress)
    /\ \A m, n \in 0..(2 * EnrollmentTarget + 1) :
          m <= n => RateLe(progressFromSessions(m), progressFromSessions(n))
    /\ SameRate(progressFromSessions(0), Zero)
    /\ SameRate(progressFromSessions(EnrollmentTarget), Quotient(1, 1))
    /\ SameRate(progressFromSessions(2 * EnrollmentTarget), Quotient(1, 1))

\* C15 witness: user-a with 24 sessions and user-b with 12: both at 1.
C15_Witness ==
    /\ Len(participants) = 2
    /\ participants[1].sessionCount = 2 * EnrollmentTarget
    /\ participants[2].sessionCount = EnrollmentTarget
    /\ SameRate(participants[1].enrollmentProgress, Quotient(1, 1))
    /\ SameRate(participants[2].enrollmentProgress, Quotient(1, 1))

\* C15 witness, below the target: user-a with 11 sessions is at 11/12.
C15_WitnessBelowTarget ==
    /\ Len(participants) = 2
    /\ participants[1].sessionCount = EnrollmentTarget - 1
    /\ SameRate(participants[1].enrollmentProgress,
                Quotient(EnrollmentTarget - 1, EnrollmentTarget))

\* the fields of a participant that an alias change leaves alone
Unaliased(participant) ==
    [id |-> participant.id, sessionCount |-> participant.sessionCount,
     lastSessionAt |-> participant.lastSessionAt,
     enrollmentProgress |-> participant.enrollmentProgress,
     modelStatus |-> participant.modelStatus]

\* every participant of a roster with a stored alias is shown with it
StoredAliasShown(roster, aliases) ==
    \A k \in 1..Len(roster) :
        roster[k].id \in DOMAIN aliases
           => roster[k].alias = aliases[roster[k].id]

\* what an alias change of participant p is to leave alone, between the
\* roster before and the roster after it
AliasFrame(before, after, p, alias) ==
    /\ Len(after) = Len(before)
    /\ \A k \in 1..Len(before) :
          /\ Unaliased(after[k]) = Unaliased(before[k])
          /\ before[k].id # p => after[k].alias = before[k].alias
          /\ before[k].id = p => after[k].alias = alias

\* C16: changing the alias of participant p affects only p's alias: the
\* roster shows the stored alias of every participant that has one, and
\* the identity, sessionCount, lastSessionAt, enrollmentProgress (and model
\* status) of every participant, the alias of every other participant, the
\* roster order and the attempt ledger are unchanged.
C16_AliasChangeTouchesOnlyAlias ==
    [][\A p \in {"user-a", "user-b"},
          alias \in {Trim(draft) : draft \in AliasDrafts} :
          handleAliasChange(p, alias)
          => /\ \A before \in {participants}, after \in {participants'} :
                   /\ StoredAliasShown(before, aliasMap)
                   /\ StoredAliasShown(after, aliasMap')
                   /\ AliasFrame(before, after, p, alias)
             /\ attemptLogs' = attemptLogs
             /\ latestVerify' = latestVerify]_vars

\* C16 witness: user-a is stored and shown as "Al" and user-b as the empty
\* alias, in a roster of both, with an attempt in the ledger.
C16_Witness ==
    /\ Len(participants) = 2
    /\ DOMAIN aliasMap = {"user-a", "user-b"}
    /\ participants[1].id = "user-a" /\ participants[1].alias = "Al"
    /\ participants[2].id = "user-b" /\ participants[2].alias = ""
    /\ Len(attemptLogs) = 1

\* the model status a training result gives
StatusOfResult(result) ==
    [trainedPairs |-> result.pairCount, accuracy |-> result.accuracy,
     auc |-> result.areaUnderRocCurve, f1 |-> result.f1Score]

\* the metrics of a model status
MetricsOf(status) ==
    [trainedPairs |-> status.trainedPairs, accuracy |-> status.accuracy,
     auc |-> status.auc, f1 |-> status.f1]

\* C17: all roster participants carry the same model status: none has one
\* before a training call has succeeded, and afterwards every participant
\* carries the pair count, accuracy, AUC and F1 of the training call that
\* succeeded last.
C17_UniformModelStatus ==
    /\ \A k, l \in 1..Len(participants) :
          participants[k].modelStatus = participants[l].modelStatus
    /\ lastSucceeded = None
          => \A k \in 1..Len(participants) : participants[k].modelStatus = None
    /\ lastSucceeded # None
          => \A k \in 1..Len(participants) :
                /\ participants[k].modelStatus # None
                /\ MetricsOf(participants[k].modelStatus[1])
                      = StatusOfResult(lastSucceeded[1])

\* C17 witness: the second training result succeeded last while another
\* call is in flight; user-a (11 sessions) and user-b (1 session) both
\* carry its 500 pairs.
C17_Witness ==
    /\ lastSucceeded # None /\ lastSucceeded[1].pairCount = 500
    /\ trainPending # None
    /\ Len(participants) = 2
    /\ participants[1].sessionCount = EnrollmentTarget - 1
    /\ participants[2].sessionCount = 1
    /\ participants[1].modelStatus[1].trainedPairs = 500
    /\ participants[2].modelStatus[1].trainedPairs = 500

(***************************************************************************)
(* EnrollmentWizard and the collect mutation of App.  The wizard exists    *)
(* while the enrollment tab is shown; its state is the record of its       *)
(* useState values, and each effect is a function on that record, applied  *)
(* by the handler whose state change triggers it.                          *)
(***************************************************************************)
\* const CAPTURE_DURATION_MS = 30_000
CAPTURE_DURATION_MS == 30000

\* {activeTab === 'enrollment' && <EnrollmentWizard ... />}
WizardMounted == activeTab = "enrollment"

\* selectedParticipant: participants.find((p) => p.id === selectedParticipantId)
selectedParticipant ==
    The({ LET found == {k \in 1..Len(roster) :
                           selectedParticipantId = Some(roster[k].id)}
          IN  IF found = {} THEN None
              ELSE Some(roster[CHOOSE k \in found : TRUE]) :
          roster \in {participants} })

\* the useState values of the mounted wizard
Wizard ==
    [step |-> step, progress |-> progress, pendingSession |-> pendingSession,
     sessionSummary |-> sessionSummary, captureError |-> captureError,
     captureComplete |-> captureComplete]

\* the useState values of a wizard at its first render
FreshWizard ==
    [step |-> "instructions", progress |-> 0, pendingSession |-> None,
     sessionSummary |-> None, captureError |-> None,
     captureComplete |-> FALSE]

\* the wizard renders with the values w
SetWizard(w) ==
    /\ step' = w.step
    /\ progress' = w.progress
    /\ pendingSession' = w.pendingSession
    /\ sessionSummary' = w.sessionSummary
    /\ captureError' = w.captureError
    /\ captureComplete' = w.captureComplete

\* the effect on [latestSession, isCapturing]
SummaryEffect(w, latest, isCapturing) ==
    IF latest # None /\ ~isCapturing
    THEN [w EXCEPT !.sessionSummary = latest] ELSE w

\* the effect on [step], entering capture: the progress starts again (and
\* a new interval is started)
CaptureEffect(w) ==
    [w EXCEPT !.progress = 0, !.captureComplete = FALSE]

\* a completion that waits for the 30 seconds only
CompletionEffectOnTimer(w) ==
    IF w.captureComplete
    THEN [w EXCEPT !.sessionSummary = w.pendingSession,
                   !.step = "summary",
                   !.pendingSession = None,
                   !.captureComplete = FALSE]
    ELSE w

\* the effect on [captureComplete, pendingSession]
CompletionEffect(w) ==
    IF w.captureComplete /\ w.pendingSession # None
    THEN [w EXCEPT !.sessionSummary = w.pendingSession,
                   !.step = "summary",
                   !.pendingSession = None,
                   !.captureComplete = FALSE]
    ELSE w

\* setCaptureError('Select a participant before capturing.')
ValidationError == "Select a participant before capturing."

\* a check that lets every capture through
HasParticipantOrNot(participant) == TRUE

\* startCapture: if (!participant) { setCaptureError(...); return }
HasParticipant(participant) == participant # None

\* startCapture up to its await: the error, the pending session and the
\* summary are cleared and the step is capture (its effect runs when the
\* step has changed)
CaptureStarted(w) ==
    LET next == [w EXCEPT !.captureError = None, !.pendingSession = None,
                          !.sessionSummary = None, !.step = "capture"]
    IN  IF w.step # "capture" THEN CaptureEffect(next) ELSE next

\* error instanceof Error ? error.message : 'Failed to capture ECG session.'
CaptureErrorOf(rejection) ==
    IF rejection.isError THEN rejection.message
    ELSE "Failed to capture ECG session."

\* a catch block that reports the error and stays in capture
CaptureRejectedInPlace(w, rejection) ==
    [w EXCEPT !.captureError = Some(CaptureErrorOf(rejection))]

\* startCapture, its catch block
CaptureRejected(w, rejection) ==
    [w EXCEPT !.captureError = Some(CaptureErrorOf(rejection)),
              !.step = "instructions"]

\* startCapture, after its await resolved: setPendingSession(session)
CaptureResolved(w, session) ==
    [w EXCEPT !.pendingSession = Some(session)]

\* errorMessage={collectMutation.error instanceof Error
\*                 ? collectMutation.error.message : undefined}
errorMessage ==
    IF collectError # None /\ collectError[1].isError
    THEN collectError[1].message ELSE Undefined

\* {(captureError || errorMessage) && <p>{captureError ?? errorMessage}</p>}:
\* the error text shown, Undefined when the paragraph is not rendered
ErrorShown(w, message) ==
    IF (w.captureError # None /\ w.captureError[1] # "")
       \/ (message # Undefined /\ message # "")
    THEN IF w.captureError # None THEN w.captureError[1] ELSE message
    ELSE Undefined

\* the active tab becomes tab: the wizard is mounted when the enrollment
\* tab comes up and is gone, with its state, when another tab replaces it
WizardFollows(tab) ==
    IF tab = activeTab THEN UNCHANGED wizVars
    ELSE /\ SetWizard(IF tab = "enrollment"
                      THEN SummaryEffect(FreshWizard, latestSession,
                                         collectPending)
                      ELSE FreshWizard)
         /\ awaiting' = FALSE
         /\ outcome' = "none"

\* a tab button is clicked
TabClicked(tab) ==
    /\ SetActiveTab(tab)
    /\ WizardFollows(tab)
    /\ UNCHANGED <<rosterVars, collectVars>>

\* the verify call resolves while the console shows any tab: onSuccess
\* brings up the verification tab
VerifyResolves(response, now) ==
    /\ VerifySucceeds(response, now)
    /\ WizardFollows("verification")
    /\ UNCHANGED <<rosterVars, collectVars>>

\* startCapture (the click handler of "Start capture" and "Capture again");
\* onCapture is collectMutation.mutateAsync()
startCapture ==
    /\ WizardMounted
    /\ IF ~HasParticipant(selectedParticipant)
       THEN /\ captureError' = Some(ValidationError)
            /\ UNCHANGED <<step, progress, pendingSession, sessionSummary,
                           captureComplete, awaiting, outcome>>
            /\ UNCHANGED collectVars
            /\ UNCHANGED inFlight
       ELSE /\ SetWizard(CaptureStarted(Wizard))
            /\ collectPending' = TRUE
            /\ collectError' = None
            /\ awaiting' = TRUE
            /\ outcome' = "pending"
            /\ UNCHANGED <<latestSession, collected>>
            /\ Calls("collect")
    /\ UNCHANGED <<appVars, histVars, rosterVars>>

\* the two buttons whose onClick is startCapture
CaptureButtons == {"Start capture", "Capture again"}

\* capture buttons that are there and enabled at any time
CaptureClickedAnyTime(button) == startCapture

\* <button disabled={isCapturing} onClick={startCapture}>Start capture, and
\* {sessionSummary ? ... <button onClick={startCapture}>Capture again
CaptureClicked(button) ==
    /\ IF button = "Start capture" THEN ~collectPending
       ELSE sessionSummary # None
    /\ startCapture

\* an interval callback that moves the progress and never completes
TickProgressOnly(elapsed) ==
    /\ WizardMounted
    /\ step = "capture"
    /\ ~captureComplete
    /\ elapsed > progress
    /\ SetWizard([Wizard EXCEPT
                     !.progress = Min(elapsed, CAPTURE_DURATION_MS)])
    /\ UNCHANGED <<awaiting, outcome>>
    /\ UNCHANGED <<appVars, histVars, rosterVars, collectVars>>
    /\ UNCHANGED inFlight

\* the interval callback of the capture effect fires, elapsed milliseconds
\* after the effect ran; progress holds min(elapsed, CAPTURE_DURATION_MS),
\* the milliseconds of which the code's ratio * 100 is the percentage
Tick(elapsed) ==
    /\ WizardMounted
    /\ step = "capture"
    /\ ~captureComplete
    /\ elapsed > progress
    /\ SetWizard(CompletionEffect(
          [Wizard EXCEPT !.progress = Min(elapsed, CAPTURE_DURATION_MS),
                         !.captureComplete = elapsed >= CAPTURE_DURATION_MS]))
    /\ UNCHANGED <<awaiting, outcome>>
    /\ UNCHANGED <<appVars, histVars, rosterVars, collectVars>>
    /\ UNCHANGED inFlight

\* the EcgSessionRecord that onSuccess makes of the collected session
SessionRecordOf(session) ==
    Session(session.documentId, session.fitbitUserId, session.ecgStartTime)

\* the collect call resolves: collectMutation.onSuccess, then startCapture
\* continues after its await if the wizard that started it is still there
CollectSucceeds(session) ==
    /\ collectPending
    /\ latestSession' = Some(session)
    /\ sessions' = Some(IF sessions # None
                        THEN Append(sessions[1], SessionRecordOf(session))
                        ELSE <<SessionRecordOf(session)>>)
    /\ activeTab' = "enrollment"
    /\ collectPending' = FALSE
    /\ collectError' = None
    /\ collected' = collected + 1
    /\ selectedParticipantId' =
          AutoSelect(selectedParticipantId,
                     participantsOf(sessions', aliasMap, lastTrainingResult,
                                    lastTrainedAt))
    /\ SetWizard(
          IF WizardMounted
          THEN CompletionEffect(
                  SummaryEffect(IF awaiting
                                THEN CaptureResolved(Wizard, session)
                                ELSE Wizard,
                                Some(session), FALSE))
          ELSE SummaryEffect(FreshWizard, Some(session), FALSE))
    /\ awaiting' = FALSE
    /\ outcome' = IF WizardMounted
                  THEN IF awaiting THEN "succeeded" ELSE outcome
                  ELSE "none"
    /\ UNCHANGED <<latestVerify, attemptLogs, verifyPending, nextId>>
    /\ UNCHANGED histVars
    /\ UNCHANGED <<aliasMap, lastTrainingResult, lastTrainedAt, trainPending,
                   lastSucceeded>>
    /\ Returns("collect")

\* the collect call rejects: the mutation holds the error, and startCapture
\* continues in its catch block if the wizard that started it is still there
CollectFails(rejection) ==
    /\ collectPending
    /\ collectPending' = FALSE
    /\ collectError' = Some(rejection)
    /\ SetWizard(
          IF WizardMounted
          THEN SummaryEffect(IF awaiting
                             THEN CaptureRejected(Wizard, rejection)
                             ELSE Wizard,
                             latestSession, FALSE)
          ELSE Wizard)
    /\ awaiting' = FALSE
    /\ outcome' = IF WizardMounted /\ awaiting THEN "failed" ELSE outcome
    /\ UNCHANGED <<latestSession, collected>>
    /\ UNCHANGED <<appVars, histVars, rosterVars>>
    /\ Returns("collect")

(***************************************************************************)
(* The inputs of SpecWizard.                                               *)
(***************************************************************************)
\* the session lists a fetch may resolve with
WizardLists == {<<>>, MixedList}

\* the session the backend returns for its collected-th capture
CollectedSession == Session(100 + collected, "user-a", Some(400 + collected))

\* what a failed collect call rejects with: an Error, or another value
Rejections ==
    { [isError |-> TRUE, message |-> "Network Error"],
      [isError |-> FALSE, message |-> ""] }

\* the elapsed times at which the interval callback may be seen to fire
ElapsedSamples == {200, 15000, CAPTURE_DURATION_MS, CAPTURE_DURATION_MS + 200}

WizardTabs == {"participants", "enrollment"}

InitWizard ==
    /\ AppInit
    /\ AnaIdle
    /\ NormIdle
    /\ RosterInit
    /\ CollectInit
    /\ WizardInit
    /\ CallsIdle
    /\ SideIdle

NextWizard ==
    \/ \E tab \in WizardTabs :
          TabClicked(tab) /\ UNCHANGED <<anaVars, normVars, sideVars>>
    \/ \E list \in WizardLists :
          /\ FetchSessionsResolves(list)
          /\ UNCHANGED <<appVars, histVars, anaVars, normVars, sideVars>>
          /\ UNCHANGED <<collectVars, wizVars>>
    \/ \E id \in {"user-a", "user-b"} :
          /\ onSelectParticipant(id)
          /\ UNCHANGED <<appVars, histVars, anaVars, normVars, sideVars>>
          /\ UNCHANGED <<collectVars, wizVars>>
    \/ \E button \in CaptureButtons :
          /\ collected < MaxCaptures
          /\ CaptureClicked(button)
          /\ UNCHANGED <<anaVars, normVars, sideVars>>
    \/ \E elapsed \in ElapsedSamples :
          Tick(elapsed) /\ UNCHANGED <<anaVars, normVars, sideVars>>
    \/ CollectSucceeds(CollectedSession) /\ UNCHANGED <<anaVars, normVars, sideVars>>
    \/ \E rejection \in Rejections :
          CollectFails(rejection) /\ UNCHANGED <<anaVars, normVars, sideVars>>

SpecWizard == InitWizard /\ [][NextWizard]_vars

\* the interval keeps firing while the capture runs, and the collect call
\* in flight resolves or is rejected in the end
TimerFires ==
    /\ \E elapsed \in ElapsedSamples : Tick(elapsed)
    /\ UNCHANGED <<anaVars, normVars, sideVars>>

CollectReturns ==
    /\ \/ CollectSucceeds(CollectedSession)
       \/ \E rejection \in Rejections : CollectFails(rejection)
    /\ UNCHANGED <<anaVars, normVars, sideVars>>

SpecWizardFair ==
    /\ SpecWizard
    /\ WF_vars(TimerFires)
    /\ WF_vars(CollectReturns)


(***************************************************************************)
(* Claims about the enrollment wizard, checked under SpecWizard.           *)
(***************************************************************************)
\* C18: when start-capture is invoked while no participant is selected, the
\* wizard's step stays what it was, the validation error is set and shown,
\* and no collect-session call is issued (the mutation and the wizard's
\* awaited call are as they were).
C18_NoParticipantNoCapture ==
    [][(startCapture /\ selectedParticipant = None) =>
          /\ step' = step
          /\ captureError' = Some(ValidationError)
          /\ ErrorShown(Wizard', errorMessage') = ValidationError
          /\ UNCHANGED <<collectVars, awaiting, outcome, sessions>>]_vars

\* start-capture was invoked without a participant, on a wizard that had a
\* summary to show, and nothing is being collected
C18_Witness ==
    /\ WizardMounted
    /\ selectedParticipant = None
    /\ captureError = Some(ValidationError)
    /\ ~collectPending
    /\ sessionSummary # None
    /\ collected = 1

\* C19: when the collect-session call of the mounted wizard that issued it
\* fails, the wizard goes from capture to instructions and shows a
\* non-empty error, the session list is not touched, and a failed attempt
\* never has the wizard in summary.
C19_FailureReturnsToInstructions ==
    [][/\ \A rejection \in Rejections :
             (CollectFails(rejection) /\ WizardMounted /\ awaiting) =>
                /\ step = "capture"
                /\ step' = "instructions"
                /\ ErrorShown(Wizard', errorMessage') \notin {Undefined, ""}
                /\ sessions' = sessions
                /\ latestSession' = latestSession
       /\ outcome' = "failed" => step' = "instructions"]_vars

\* a collect call failed with a value that is not an Error, after an earlier
\* capture had succeeded: the wizard is back in instructions with the
\* fallback text and the one session of before
C19_Witness ==
    /\ outcome = "failed"
    /\ step = "instructions"
    /\ captureError = Some("Failed to capture ECG session.")
    /\ collected = 1
    /\ sessions # None
    /\ Len(sessions[1]) = 1

\* C20: when the collect-session call of the wizard in capture resolves
\* successfully, the wizard moves to summary, whatever the progress of the
\* 30 seconds is.
C20_ResolveAloneCompletes ==
    [][(CollectSucceeds(CollectedSession) /\ WizardMounted /\ awaiting
          /\ step = "capture") => step' = "summary"]_vars

\* the collect call has resolved and the wizard holds the session, but the
\* 30 seconds are not over and the wizard is still in capture
C20_HeldInCapture ==
    /\ outcome = "succeeded"
    /\ step = "capture"
    /\ pendingSession # None
    /\ progress < CAPTURE_DURATION_MS


(***************************************************************************)
(* ContinuousMonitor (src/unnamed/part_005) and the continuous-verify call *)
(* of the API client.  A time is a number of seconds; a raw boolean of the *)
(* backend is the name of its JSON value ("true", "false", "undefined").   *)
(* The component that owns latestResult and isRunning is not part of the   *)
(* sources: it is modelled from the specification (one call in flight, the *)
(* control disabled while it is outstanding).                              *)
(***************************************************************************)
\* Boolean(value) on a raw JSON boolean or a missing key
ToBoolean(raw) == raw = "true"

\* sort((a, b) => start(a) - start(b)): the stable sort of the list, by
\* insertion
RECURSIVE SortByStart(_)
SortByStart(list) ==
    IF list = <<>> THEN <<>>
    ELSE LET rest == SortByStart(SubSeq(list, 1, Len(list) - 1))
             last == list[Len(list)]
             ahead == {k \in 1..Len(rest) :
                          rest[k].windowStartUtc <= last.windowStartUtc}
         IN  SubSeq(rest, 1, Cardinality(ahead)) \o <<last>>
                \o SubSeq(rest, Cardinality(ahead) + 1, Len(rest))

\* adaptContinuousSamples
adaptContinuousSamples(raw) ==
    SortByStart([k \in 1..Len(raw) |->
                    [windowStartUtc |-> raw[k].windowStartUtc,
                     windowEndUtc |-> raw[k].windowEndUtc,
                     score |-> coerceNumber(raw[k].score),
                     passes |-> ToBoolean(raw[k].passes)]])

\* adaptContinuousResponse
adaptContinuousResponse(response) ==
    [authenticated |-> ToBoolean(response.authenticated),
     rollingMeanScore |-> coerceNumber(response.rollingMeanScore),
     rollingWorstScore |-> coerceNumber(response.rollingWorstScore),
     samples |-> adaptContinuousSamples(response.samples)]

\* format(new Date(stamp), 'MMM d HH:mm'): the minute the stamp falls in
FormatMinute(stamp) == stamp \div 60

\* samples.filter((sample) => sample.passes).length
PassCountOf(list) == Cardinality({k \in 1..Len(list) : list[k].passes})

\* a summary whose pass rate divides by the count even when there is none
summaryUnguarded(result) ==
    LET list == IF result # None THEN result[1].samples ELSE <<>>
        count == Len(list)
        passCount == PassCountOf(list)
    IN  [count |-> count,
         passCount |-> passCount,
         failCount |-> count - passCount,
         passRate |-> Quotient(passCount, count),
         windowRange |->
            IF count > 0
            THEN Some(<<FormatMinute(list[1].windowStartUtc),
                        FormatMinute(list[count].windowEndUtc)>>)
            ELSE None]

\* summary: useMemo over latestResult
summaryOf(result) ==
    LET list == IF result # None THEN result[1].samples ELSE <<>>
        count == Len(list)
        passCount == PassCountOf(list)
    IN  [count |-> count,
         passCount |-> passCount,
         failCount |-> count - passCount,
         passRate |-> IF count > 0 THEN Quotient(passCount, count) ELSE Zero,
         windowRange |->
            IF count > 0
            THEN Some(<<FormatMinute(list[1].windowStartUtc),
                        FormatMinute(list[count].windowEndUtc)>>)
            ELSE None]

\* the summary of the render
summary == summaryOf(latestResult)

\* an applied threshold that follows the slider
appliedThresholdOfSlider(run, slider) == slider

\* lastRun?.threshold ?? threshold
appliedThresholdOf(run, slider) ==
    IF run # None THEN run[1].threshold ELSE slider

\* the applied threshold of the render
appliedThreshold == appliedThresholdOf(lastRun, sliderThreshold)

\* onChange of the threshold slider
setThreshold(value) ==
    /\ sliderThreshold' = value
    /\ UNCHANGED <<windowMinutes, strideMinutes, lastRun, latestResult,
                   isRunning, submitted, inFlight>>

\* onChange of the window minutes input
setWindowMinutes(value) ==
    /\ windowMinutes' = value
    /\ UNCHANGED <<sliderThreshold, strideMinutes, lastRun, latestResult,
                   isRunning, submitted, inFlight>>

\* onChange of the stride minutes input
setStrideMinutes(value) ==
    /\ strideMinutes' = value
    /\ UNCHANGED <<sliderThreshold, windowMinutes, lastRun, latestResult,
                   isRunning, submitted, inFlight>>

\* the owner's onRun: the continuous-verify call is sent and isRunning
\* holds while it is outstanding
onRun(options) ==
    /\ isRunning' = TRUE
    /\ submitted' = Some(options)
    /\ Calls("continuous")

\* a run button that stays enabled while a sweep is running
handleRunAnyTime ==
    LET options == [threshold |-> sliderThreshold,
                    windowMinutes |-> windowMinutes,
                    strideMinutes |-> strideMinutes]
    IN  /\ lastRun' = Some(options)
        /\ onRun(options)
        /\ UNCHANGED <<sliderThreshold, windowMinutes, strideMinutes,
                       latestResult>>

\* handleRun, the onClick of the run button (disabled={isRunning})
handleRun ==
    LET options == [threshold |-> sliderThreshold,
                    windowMinutes |-> windowMinutes,
                    strideMinutes |-> strideMinutes]
    IN  /\ ~isRunning
        /\ lastRun' = Some(options)
        /\ onRun(options)
        /\ UNCHANGED <<sliderThreshold, windowMinutes, strideMinutes,
                       latestResult>>

\* the continuous-verify call resolves: runContinuousVerify adapts the
\* response and the owner hands it to the monitor
RunSucceeds(response) ==
    /\ isRunning
    /\ latestResult' = Some(adaptContinuousResponse(response))
    /\ isRunning' = FALSE
    /\ Returns("continuous")
    /\ UNCHANGED <<sliderThreshold, windowMinutes, strideMinutes, lastRun,
                   submitted>>

\* the continuous-verify call rejects
RunFails ==
    /\ isRunning
    /\ isRunning' = FALSE
    /\ Returns("continuous")
    /\ UNCHANGED <<sliderThreshold, windowMinutes, strideMinutes, lastRun,
                   latestResult, submitted>>

(***************************************************************************)
(* The inputs of SpecMonitor.                                              *)
(***************************************************************************)
\* the raw sample of the k-th window (windows of 15 minutes, 5 apart)
RawSample(k, passes) ==
    [windowStartUtc |-> 1000 + 300 * k, windowEndUtc |-> 1900 + 300 * k,
     score |-> Num(IF passes = "true" THEN 90 ELSE 60), passes |-> passes]

RawBooleans == {"true", "false", "undefined"}

\* the sample lists the backend may send: at most MaxSamples windows, in
\* ascending or in descending order of their start
RawSampleLists ==
    UNION { UNION { { [k \in 1..n |-> RawSample(k, flags[k])],
                      [k \in 1..n |-> RawSample(n + 1 - k, flags[k])] } :
                    flags \in [1..n -> RawBooleans] } :
            n \in 0..MaxSamples }

ContinuousResponses ==
    { [authenticated |-> "undefined", rollingMeanScore |-> Num(75),
       rollingWorstScore |-> Num(60), samples |-> list] :
        list \in RawSampleLists }

SliderValues == {50, 85, 95}
WindowValues == {15, 30}
StrideValues == {5, 10}

InitMonitor ==
    /\ AppInit
    /\ AnaIdle
    /\ NormIdle
    /\ RosterInit
    /\ CollectInit
    /\ WizardInit
    /\ CallsIdle
    /\ MonitorInit
    /\ HookIdle
    /\ PanelIdle
    /\ FetchIdle

NextMonitor ==
    \/ \E value \in SliderValues :
          /\ setThreshold(value)
          /\ UNCHANGED <<appVars, histVars, anaVars, normVars, consoleVars,
                         hookVars, panelVars, fetchVars>>
    \/ \E value \in WindowValues :
          /\ setWindowMinutes(value)
          /\ UNCHANGED <<appVars, histVars, anaVars, normVars, consoleVars,
                         hookVars, panelVars, fetchVars>>
    \/ \E value \in StrideValues :
          /\ setStrideMinutes(value)
          /\ UNCHANGED <<appVars, histVars, anaVars, normVars, consoleVars,
                         hookVars, panelVars, fetchVars>>
    \/ /\ handleRun
       /\ UNCHANGED <<appVars, histVars, anaVars, normVars, consoleVars,
                         hookVars, panelVars, fetchVars>>
    \/ \E response \in ContinuousResponses :
          /\ RunSucceeds(response)
          /\ UNCHANGED <<appVars, histVars, anaVars, normVars, consoleVars,
                         hookVars, panelVars, fetchVars>>
    \/ /\ RunFails
       /\ UNCHANGED <<appVars, histVars, anaVars, normVars, consoleVars,
                         hookVars, panelVars, fetchVars>>

SpecMonitor == InitMonitor /\ [][NextMonitor]_vars


(***************************************************************************)
(* SpecCalls: the four remote actions together, under every interleaving   *)
(* of the clicks that trigger them, of tab switches and of completions.    *)
(***************************************************************************)
\* the response of a sweep over one window
OneWindowResponse ==
    [authenticated |-> "true", rollingMeanScore |-> Num(90),
     rollingWorstScore |-> Num(90), samples |-> <<RawSample(1, "true")>>]

\* the result of a training call
OneTrainingResult == CHOOSE result \in TrainingResults : result.pairCount = 500

InitCalls ==
    /\ AppInit
    /\ AnaIdle
    /\ NormIdle
    /\ RosterInit
    /\ CollectInit
    /\ WizardInit
    /\ CallsIdle
    /\ SideIdle

NextCalls ==
    \/ \E tab \in tabs :
          TabClicked(tab) /\ UNCHANGED <<anaVars, normVars, sideVars>>
    \/ /\ FetchSessionsResolves(MixedList)
       /\ UNCHANGED <<appVars, histVars, anaVars, normVars, sideVars>>
       /\ UNCHANGED <<collectVars, wizVars>>
    \/ \E button \in CaptureButtons :
          /\ collected < MaxCaptures
          /\ CaptureClicked(button)
          /\ UNCHANGED <<anaVars, normVars, sideVars>>
    \/ /\ Tick(CAPTURE_DURATION_MS)
       /\ UNCHANGED <<anaVars, normVars, sideVars>>
    \/ /\ CollectSucceeds(CollectedSession)
       /\ UNCHANGED <<anaVars, normVars, sideVars>>
    \/ \E rejection \in Rejections :
          /\ rejection.isError
          /\ CollectFails(rejection)
          /\ UNCHANGED <<anaVars, normVars, sideVars>>
    \/ /\ nextId <= MaxVerifies
       /\ handleVerify(85, "genuine", Undefined, "Alice")
       /\ UNCHANGED <<anaVars, normVars, consoleVars, sideVars>>
    \/ \E response \in CapResponses :
          /\ VerifyResolves(response, 20)
          /\ UNCHANGED <<anaVars, normVars, sideVars>>
    \/ /\ VerifyFails
       /\ UNCHANGED <<anaVars, normVars, consoleVars, sideVars>>
    \/ \E maxPairs \in MaxPairsInputs :
          /\ handleTrain(maxPairs)
          /\ UNCHANGED <<appVars, histVars, anaVars, normVars, sideVars>>
          /\ UNCHANGED <<collectVars, wizVars>>
    \/ /\ TrainSucceeds(OneTrainingResult, 20)
       /\ UNCHANGED <<appVars, histVars, anaVars, normVars, sideVars>>
       /\ UNCHANGED <<collectVars, wizVars>>
    \/ /\ TrainFails
       /\ UNCHANGED <<appVars, histVars, anaVars, normVars, sideVars>>
       /\ UNCHANGED <<collectVars, wizVars>>
    \/ /\ handleRun
       /\ UNCHANGED <<appVars, histVars, anaVars, normVars, consoleVars,
                         hookVars, panelVars, fetchVars>>
    \/ /\ RunSucceeds(OneWindowResponse)
       /\ UNCHANGED <<appVars, histVars, anaVars, normVars, consoleVars,
                         hookVars, panelVars, fetchVars>>
    \/ /\ RunFails
       /\ UNCHANGED <<appVars, histVars, anaVars, normVars, consoleVars,
                         hookVars, panelVars, fetchVars>>

SpecCalls == InitCalls /\ [][NextCalls]_vars


(***************************************************************************)
(* Claims about the remote calls, checked under SpecCalls.                 *)
(***************************************************************************)
\* C21: for each of the four remote actions (collect-session, verify,
\* train, continuous-verify) at most one call is outstanding in every
\* reachable state, whatever the interleaving of clicks, tab switches and
\* completions; the collect calls are those of both capture buttons.
C21_OneCallPerAction ==
    \A action \in RemoteActions : inFlight[action] <= 1

\* one call of each action is outstanding at once, the collect call being
\* the second capture of a wizard
C21_Witness ==
    /\ \A action \in RemoteActions : inFlight[action] = 1
    /\ collected = 1
    /\ collectPending
    /\ step = "capture"


(***************************************************************************)
(* Claims about the continuous monitor, checked under SpecMonitor.         *)
(***************************************************************************)
\* the samples of the response the monitor shows
ShownSamples == latestResult[1].samples

\* C22: for every continuous-verify response the summary counts the
\* samples, counts those that pass, has failCount = count - passCount (the
\* samples that do not pass) and passRate = passCount / count, exactly 0 for
\* an empty sample set; the window range is absent exactly when there is no
\* sample.
C22_SummaryOfSamples ==
    latestResult # None =>
        LET passing == {k \in DOMAIN ShownSamples : ShownSamples[k].passes}
            failing == {k \in DOMAIN ShownSamples : ~ShownSamples[k].passes}
        IN  /\ summary.count = Len(ShownSamples)
            /\ summary.passCount = Cardinality(passing)
            /\ summary.failCount = Cardinality(failing)
            /\ summary.failCount = summary.count - summary.passCount
            /\ summary.passRate.den > 0
            /\ ShownSamples # <<>> =>
                  SameRate(summary.passRate,
                           Quotient(summary.passCount, summary.count))
            /\ ShownSamples = <<>> => summary.passRate.num = 0
            /\ summary.windowRange = None <=> ShownSamples = <<>>

\* the response of the specification's example: three samples that pass,
\* fail and pass, so the pass rate is 2/3 and one sample fails
C22_Witness ==
    /\ latestResult # None
    /\ Len(ShownSamples) = 3
    /\ ShownSamples[1].passes /\ ~ShownSamples[2].passes
    /\ ShownSamples[3].passes
    /\ SameRate(summary.passRate, Quotient(2, 3))
    /\ summary.failCount = 1
    /\ summary.windowRange # None


\* C23: the applied threshold is at every moment the threshold of the run
\* request submitted last, and the slider value while none was submitted;
\* a step that submits nothing (moving the slider, a response with its
\* samples arriving) leaves it unchanged once a run has been submitted.
C23_AppliedThresholdIsSubmitted ==
    /\ [](appliedThreshold = IF submitted = None THEN sliderThreshold
                             ELSE submitted[1].threshold)
    /\ [][(submitted # None /\ submitted' = submitted)
             => appliedThreshold' = appliedThreshold]_vars

\* a run was submitted at one threshold, the slider has been moved to
\* another since, and the response with its samples is shown
C23_Witness ==
    /\ submitted # None
    /\ submitted[1].threshold = 50
    /\ sliderThreshold = 95
    /\ appliedThreshold = 50
    /\ latestResult # None
    /\ Len(latestResult[1].samples) = 2
    /\ ~isRunning


(***************************************************************************)
(* useLocalStorage (src/src/hooks/useLocalStorage.ts).  A JavaScript value *)
(* the hook may hold is [t, s, n, o]: t is "string", "number", "null" or   *)
(* "object", and o lists the entries of an object as <<key, value>> in     *)
(* insertion order.  A text is the sequence of its JSON tokens, [t, s, n]; *)
(* the empty string is the empty sequence.  An entry of the storage is     *)
(* None when the key is absent and Some(text) otherwise.                   *)
(***************************************************************************)
JsString(s) == [t |-> "string", s |-> s, n |-> 0, o |-> <<>>]
JsNumber(n) == [t |-> "number", s |-> "", n |-> n, o |-> <<>>]
JsNull == [t |-> "null", s |-> "", n |-> 0, o |-> <<>>]
JsObject(entries) == [t |-> "object", s |-> "", n |-> 0, o |-> entries]

StringToken(s) == [t |-> "string", s |-> s, n |-> 0]
NumberToken(n) == [t |-> "number", s |-> "", n |-> n]
Punctuation(s) == [t |-> s, s |-> "", n |-> 0]

\* the token of a string, a number or null
ScalarToken(value) ==
    CASE value.t = "string" -> StringToken(value.s)
      [] value.t = "number" -> NumberToken(value.n)
      [] OTHER -> Punctuation("null")

\* the tokens of the entries of an object from the k-th on, commas between
RECURSIVE EntryTokens(_, _)
EntryTokens(entries, k) ==
    IF k > Len(entries) THEN <<>>
    ELSE (IF k > 1 THEN <<Punctuation(",")>> ELSE <<>>)
            \o <<StringToken(entries[k][1]), Punctuation(":"),
                 ScalarToken(entries[k][2])>>
            \o EntryTokens(entries, k + 1)

\* JSON.stringify(value)
JsonStringify(value) ==
    IF value.t = "object"
    THEN <<Punctuation("{")>> \o EntryTokens(value.o, 1)
            \o <<Punctuation("}")>>
    ELSE <<ScalarToken(value)>>

\* the value a scalar token stands for
ScalarOf(token) ==
    CASE token.t = "string" -> JsString(token.s)
      [] token.t = "number" -> JsNumber(token.n)
      [] OTHER -> JsNull

IsScalarToken(token) == token.t \in {"string", "number", "null"}

\* the outcome of a parse: a value, or a SyntaxError
Parsed(value) == [ok |-> TRUE, value |-> value]
SyntaxError == [ok |-> FALSE, value |-> JsNull]

\* JSON.parse(text), for scalars and for objects of scalars
JsonParse(text) ==
    LET size == Len(text)
        count == size \div 4
        EntryAt(k) == <<text[4 * k - 2].s, ScalarOf(text[4 * k])>>
        WellFormed ==
            /\ size % 4 = 1
            /\ text[1].t = "{"
            /\ \A k \in 1..count :
                  /\ text[4 * k - 2].t = "string"
                  /\ text[4 * k - 1].t = ":"
                  /\ IsScalarToken(text[4 * k])
                  /\ text[4 * k + 1].t = IF k = count THEN "}" ELSE ","
    IN  CASE size = 1 /\ IsScalarToken(text[1]) -> Parsed(ScalarOf(text[1]))
          [] size = 2 /\ text[1].t = "{" /\ text[2].t = "}" ->
                Parsed(JsObject(<<>>))
          [] size > 2 /\ WellFormed ->
                Parsed(JsObject([k \in 1..count |-> EntryAt(k)]))
          [] OTHER -> SyntaxError


\* what a step of the hook comes to: the value it yields, the storage entry
\* it leaves, whether it has written, and whether an error has escaped it
Outcome(value, item, written, escaped) ==
    [value |-> value, item |-> item, written |-> written,
     escaped |-> escaped]

\* what the try block of the initializer does: getItem, then JSON.parse of
\* a text that is not empty
ReadStored(item, mode, defaultValue) ==
    IF mode = "denied" THEN [thrown |-> TRUE, value |-> defaultValue]
    ELSE IF item = None \/ item[1] = <<>>
         THEN [thrown |-> FALSE, value |-> defaultValue]
         ELSE [thrown |-> ~JsonParse(item[1]).ok,
               value |-> JsonParse(item[1]).value]

\* an initializer without its catch block
InitialValueUncaught(item, mode, window, defaultValue) ==
    IF ~window THEN Outcome(defaultValue, item, FALSE, FALSE)
    ELSE LET read == ReadStored(item, mode, defaultValue)
         IN  Outcome(IF read.thrown THEN defaultValue ELSE read.value,
                     item, FALSE, read.thrown)

\* the initializer of useState
InitialValue(item, mode, window, defaultValue) ==
    IF ~window THEN Outcome(defaultValue, item, FALSE, FALSE)
    ELSE LET read == ReadStored(item, mode, defaultValue)
         IN  Outcome(IF read.thrown THEN defaultValue ELSE read.value,
                     item, FALSE, FALSE)

\* a write effect that stores the text of the default value
WriteEffectStale(value, item, mode, window) ==
    IF ~window \/ mode # "ok" THEN Outcome(value, item, FALSE, FALSE)
    ELSE Outcome(value, Some(JsonStringify(JsObject(<<>>))), TRUE, FALSE)

\* the effect on [key, value]: setItem(key, JSON.stringify(value)), errors
\* ignored (no effect runs where there is no window)
WriteEffect(value, item, mode, window) ==
    IF ~window \/ mode # "ok" THEN Outcome(value, item, FALSE, FALSE)
    ELSE Outcome(value, Some(JsonStringify(value)), TRUE, FALSE)

\* the hook after a render that yields outcome.value, its effect included
HookRendered(first, ran) ==
    /\ hookValue' = Some(first.value)
    /\ lastValue' = Some(first.value)
    /\ storageItem' = ran.item
    /\ lastWriteOk' = ran.written
    /\ raised' = (raised \/ first.escaped \/ ran.escaped)

\* useLocalStorage(key, defaultValue), the first render of a component
useLocalStorage(defaultValue) ==
    /\ ~hookMounted
    /\ hookMounted' = TRUE
    /\ LET first == InitialValue(storageItem, storageMode, hasWindow,
                                 defaultValue)
       IN  HookRendered(first,
                        WriteEffect(first.value, storageItem, storageMode,
                                    hasWindow))
    /\ hookOp' = "init"
    /\ UNCHANGED <<hasWindow, storageMode>>

\* setValue(next): the value changes and the effect runs (a primitive equal
\* to the value held is no change)
setValue(next) ==
    /\ hookMounted
    /\ hasWindow
    /\ IF next = hookValue[1] /\ next.t # "object"
       THEN UNCHANGED <<hookValue, lastValue, storageItem, lastWriteOk,
                        raised>>
       ELSE HookRendered(Outcome(next, storageItem, FALSE, FALSE),
                         WriteEffect(next, storageItem, storageMode,
                                     hasWindow))
    /\ hookOp' = "set"
    /\ UNCHANGED <<hasWindow, storageMode, hookMounted>>

\* the component goes away (the page is left or reloaded)
HookUnmounts ==
    /\ hookMounted
    /\ hookMounted' = FALSE
    /\ hookValue' = None
    /\ hookOp' = "unmount"
    /\ UNCHANGED <<hasWindow, storageMode, storageItem, raised, lastValue,
                   lastWriteOk>>

\* the browser's storage becomes writable, read-only or inaccessible
StorageModeChanges(mode) ==
    /\ hasWindow
    /\ mode # storageMode
    /\ storageMode' = mode
    /\ UNCHANGED <<hasWindow, storageItem, hookMounted, hookValue, raised,
                   lastValue, lastWriteOk, hookOp>>

(***************************************************************************)
(* The inputs of SpecStorage.                                              *)
(***************************************************************************)
HookValues ==
    { JsString(""), JsString("Al"), JsNumber(0), JsNumber(42), JsNull,
      JsObject(<<>>), JsObject(<< <<"user-a", JsString("Al")>> >>),
      JsObject(<< <<"user-b", JsString("")>>,
                  <<"user-a", JsString("Al")>> >>) }

DefaultValues == {JsString("fallback"), JsObject(<<>>)}

\* texts JSON.parse rejects: "{", "undefined", {"user-a"} and "a""b"
CorruptTexts ==
    { <<Punctuation("{")>>, <<Punctuation("undefined")>>,
      <<Punctuation("{"), StringToken("user-a"), Punctuation("}")>>,
      <<StringToken("a"), StringToken("b")>> }

StorageModes == {"ok", "readonly", "denied"}

\* the values whose text the key may hold before the first render
StoredValues ==
    {JsNumber(42), JsObject(<< <<"user-a", JsString("Al")>> >>)}

\* what the key may hold before the first render
InitialItems ==
    {None, Some(<<>>)} \cup {Some(text) : text \in CorruptTexts}
       \cup {Some(JsonStringify(value)) : value \in StoredValues}

InitStorage ==
    /\ AppInit
    /\ AnaIdle
    /\ NormIdle
    /\ RosterInit
    /\ CollectInit
    /\ WizardInit
    /\ CallsIdle
    /\ MonitorInit
    /\ PanelIdle
    /\ FetchIdle
    /\ hasWindow \in BOOLEAN
    /\ storageMode \in (IF hasWindow THEN StorageModes ELSE {"denied"})
    /\ storageItem \in InitialItems
    /\ hookMounted = FALSE
    /\ hookValue = None
    /\ raised = FALSE
    /\ lastValue = None
    /\ lastWriteOk = FALSE
    /\ hookOp = "none"

NextStorage ==
    \/ \E defaultValue \in DefaultValues :
          /\ useLocalStorage(defaultValue)
          /\ UNCHANGED <<appVars, histVars, anaVars, normVars, consoleVars,
                         inFlight, monVars, panelVars, fetchVars>>
    \/ \E next \in HookValues :
          /\ setValue(next)
          /\ UNCHANGED <<appVars, histVars, anaVars, normVars, consoleVars,
                         inFlight, monVars, panelVars, fetchVars>>
    \/ /\ HookUnmounts
       /\ UNCHANGED <<appVars, histVars, anaVars, normVars, consoleVars,
                      inFlight, monVars, panelVars, fetchVars>>
    \/ \E mode \in StorageModes :
          /\ StorageModeChanges(mode)
          /\ UNCHANGED <<appVars, histVars, anaVars, normVars, consoleVars,
                         inFlight, monVars, panelVars, fetchVars>>

SpecStorage == InitStorage /\ [][NextStorage]_vars


(***************************************************************************)
(* Claims about the local-storage hook, checked under SpecStorage.         *)
(***************************************************************************)
\* C24: an initialization of the hook raises no error; with a storage that
\* can be read it yields the value whose serialization the key holds, and
\* the default when the key is absent, holds the empty string or holds a
\* text that does not parse; it yields the default as well when the storage
\* cannot be read at all.
C24_InitializationFallsBack ==
    [][\A defaultValue \in DefaultValues :
          useLocalStorage(defaultValue) =>
             /\ ~raised'
             /\ (hasWindow /\ storageMode # "denied") =>
                   /\ \A value \in HookValues :
                         storageItem = Some(JsonStringify(value))
                            => hookValue' = Some(value)
                   /\ (\/ storageItem \in {None, Some(<<>>)}
                       \/ storageItem \in {Some(text) : text \in CorruptTexts})
                         => hookValue' = Some(defaultValue)
             /\ ~(hasWindow /\ storageMode # "denied") =>
                   hookValue' = Some(defaultValue)]_vars

\* the hook was initialized over a text that does not parse, with a storage
\* that cannot be written: it holds the default and nothing was raised
C24_Witness ==
    /\ hookOp = "init"
    /\ storageMode = "readonly"
    /\ storageItem = Some(<<Punctuation("{")>>)
    /\ hookValue = Some(JsString("fallback"))
    /\ ~raised

\* C25: whenever the hook's value changes (the initialization included)
\* with a writable storage, the entry under the key is afterwards the
\* serialization of the new value, and an initialization that follows a
\* successful write reads back the value held last; when the write fails,
\* nothing is raised, the entry stays, and the value set is the value held.
C25_StorageFollowsValue ==
    [][/\ (hookMounted' /\ hookValue' # hookValue /\ hasWindow)
             => IF storageMode = "ok"
                THEN storageItem' = Some(JsonStringify(hookValue'[1]))
                ELSE storageItem' = storageItem /\ ~raised'
       /\ \A next \in HookValues :
             setValue(next) => hookValue' = Some(next) /\ ~raised'
       /\ \A defaultValue \in DefaultValues :
             (/\ useLocalStorage(defaultValue)
              /\ lastValue # None /\ lastWriteOk
              /\ hasWindow /\ storageMode # "denied")
                => hookValue' = lastValue]_vars

\* an initialization has read back an alias map of two entries, which only
\* a setValue of an earlier component can have stored
C25_Witness ==
    /\ hookOp = "init"
    /\ hookValue = Some(JsObject(<< <<"user-b", JsString("")>>,
                                    <<"user-a", JsString("Al")>> >>))
    /\ storageItem = Some(JsonStringify(hookValue[1]))
    /\ ~raised


(***************************************************************************)
(* VerificationPanel (src/src/components/VerificationPanel.tsx), rendered  *)
(* on the verification tab only: leaving the tab unmounts it and coming    *)
(* back mounts a fresh one.  An unmounted panel is held as a fresh one.    *)
(***************************************************************************)
PanelMounted == activeTab = "verification"

\* notes.trim() || undefined
TrimmedNotes(text) == IF Trim(text) = "" THEN Undefined ELSE Trim(text)

\* impostorMode ? 'impostor' : 'genuine'
LabelOfMode(mode) == IF mode THEN "impostor" ELSE "genuine"

\* selectedParticipant?.alias ?? selectedParticipant?.id
AliasOfSelected(participant) ==
    IF participant = None THEN Undefined
    ELSE IF participant[1].alias # Undefined THEN participant[1].alias
    ELSE participant[1].id

\* latestResult?.notes ?? ''
NotesOfLatest(latest) ==
    IF latest = None \/ latest[1].notes = Undefined THEN ""
    ELSE latest[1].notes

\* [latestResult?.id, latestResult?.notes], the dependencies of the effect
NotesDeps(latest) ==
    IF latest = None THEN None
    ELSE Some(<<latest[1].id, latest[1].notes>>)

\* the panel after the render that follows a handler of the console: it is
\* unmounted away from the verification tab, mounted fresh (and its effect
\* run) on coming to the tab, and while it stays mounted its effect copies
\* the notes of the latest result when the dependencies have changed
PanelRenders ==
    IF activeTab' # "verification"
    THEN /\ panelThreshold' = 85
         /\ impostorMode' = FALSE
         /\ panelNotes' = ""
    ELSE IF activeTab # "verification"
    THEN /\ panelThreshold' = 85
         /\ impostorMode' = FALSE
         /\ panelNotes' = NotesOfLatest(latestVerify')
    ELSE /\ UNCHANGED <<panelThreshold, impostorMode>>
         /\ panelNotes' = IF NotesDeps(latestVerify') # NotesDeps(latestVerify)
                          THEN NotesOfLatest(latestVerify')
                          ELSE panelNotes

\* the impostor-mode checkbox
setImpostorMode(checked) ==
    /\ PanelMounted
    /\ impostorMode' = checked
    /\ UNCHANGED <<panelThreshold, panelNotes, atClick>>

\* the notes field
setNotes(text) ==
    /\ PanelMounted
    /\ panelNotes' = text
    /\ UNCHANGED <<panelThreshold, impostorMode, atClick>>

\* the id and the alias of a participant, none if there is no participant
IdAndAlias(participant) ==
    IF participant = None THEN None
    ELSE Some([id |-> participant[1].id, alias |-> participant[1].alias])

\* "Verify now": the panel's handleVerify hands threshold, label and notes
\* to onVerify, the console's handleVerify, which adds the alias
VerifyNowClicked ==
    /\ PanelMounted
    /\ handleVerify(panelThreshold, LabelOfMode(impostorMode),
                    TrimmedNotes(panelNotes),
                    AliasOfSelected(selectedParticipant))
    /\ atClick' = Some([impostor |-> impostorMode, notes |-> panelNotes,
                        participant |-> IdAndAlias(selectedParticipant)])
    /\ UNCHANGED <<panelThreshold, impostorMode, panelNotes>>
    /\ UNCHANGED <<consoleVars>>

\* handleLabelChange: "Mark genuine" and "Mark impostor", rendered when
\* there is a latest result
handleLabelChange(label) ==
    /\ PanelMounted
    /\ latestVerify # None
    /\ Relabels(latestVerify[1].id, label, TrimmedNotes(panelNotes))
    /\ PanelRenders
    /\ UNCHANGED atClick
    /\ UNCHANGED <<consoleVars>>

\* a tab button is clicked
PanelTabClicked(tab) ==
    /\ TabClicked(tab)
    /\ PanelRenders
    /\ UNCHANGED atClick

\* the verify call resolves
PanelVerifyResolves(response, now) ==
    /\ VerifyResolves(response, now)
    /\ PanelRenders
    /\ UNCHANGED atClick

\* the verify call fails
PanelVerifyFails ==
    /\ VerifyFails
    /\ UNCHANGED <<panelVars, consoleVars>>

PanelTabs == {"participants", "verification"}
PanelList == << Session(1, "user-a", Some(300)), Session(2, "user-b", None) >>
NotesTexts == {" Al ", "   "}
PanelIds == {"user-a", "user-b"}

InitPanel ==
    /\ AppInit
    /\ AnaIdle
    /\ NormIdle
    /\ ConsoleIdle

NextPanel ==
    \/ \E tab \in PanelTabs :
          /\ PanelTabClicked(tab)
          /\ UNCHANGED <<anaVars, normVars, monVars, hookVars, fetchVars>>
    \/ /\ FetchSessionsResolves(PanelList)
       /\ UNCHANGED <<appVars, histVars, anaVars, normVars>>
       /\ UNCHANGED <<collectVars, wizVars, sideVars>>
    \/ \E id \in PanelIds :
          /\ onSelectParticipant(id)
          /\ UNCHANGED <<appVars, histVars, anaVars, normVars>>
          /\ UNCHANGED <<collectVars, wizVars, sideVars>>
    \/ /\ handleAliasCommit("user-a", " Al ")
       /\ UNCHANGED <<appVars, histVars, anaVars, normVars>>
       /\ UNCHANGED <<collectVars, wizVars, sideVars>>
    \/ \E checked \in BOOLEAN :
          /\ setImpostorMode(checked)
          /\ UNCHANGED <<appVars, histVars, anaVars, normVars, consoleVars>>
          /\ UNCHANGED <<inFlight, monVars, hookVars, fetchVars>>
    \/ \E text \in NotesTexts :
          /\ setNotes(text)
          /\ UNCHANGED <<appVars, histVars, anaVars, normVars, consoleVars>>
          /\ UNCHANGED <<inFlight, monVars, hookVars, fetchVars>>
    \/ /\ nextId <= MaxClicks
       /\ VerifyNowClicked
       /\ UNCHANGED <<anaVars, normVars, monVars, hookVars, fetchVars>>
    \/ \E response \in CapResponses :
          /\ PanelVerifyResolves(response, 20)
          /\ UNCHANGED <<anaVars, normVars, monVars, hookVars, fetchVars>>
    \/ /\ PanelVerifyFails
       /\ UNCHANGED <<anaVars, normVars, monVars, hookVars, fetchVars>>

SpecPanel == InitPanel /\ [][NextPanel]_vars

\* verifications and relabelings from the panel, with no roster
NextLedger ==
    \/ \E tab \in PanelTabs :
          /\ PanelTabClicked(tab)
          /\ UNCHANGED <<anaVars, normVars, monVars, hookVars, fetchVars>>
    \/ \E text \in NotesTexts :
          /\ setNotes(text)
          /\ UNCHANGED <<appVars, histVars, anaVars, normVars, consoleVars>>
          /\ UNCHANGED <<inFlight, monVars, hookVars, fetchVars>>
    \/ /\ nextId <= MaxVerifies
       /\ VerifyNowClicked
       /\ UNCHANGED <<anaVars, normVars, monVars, hookVars, fetchVars>>
    \/ \E response \in CapResponses :
          /\ PanelVerifyResolves(response, 20)
          /\ UNCHANGED <<anaVars, normVars, monVars, hookVars, fetchVars>>
    \/ /\ PanelVerifyFails
       /\ UNCHANGED <<anaVars, normVars, monVars, hookVars, fetchVars>>
    \/ \E label \in Labels :
          /\ handleLabelChange(label)
          /\ UNCHANGED <<anaVars, normVars, monVars, hookVars, fetchVars>>

SpecLedger == InitPanel /\ [][NextLedger]_vars



(***************************************************************************)
(* Claims about the verification panel, checked under SpecPanel (C26) and  *)
(* under SpecLedger (C27).                                                 *)
(***************************************************************************)
\* C26: the attempt recorded when a verify call resolves (the latest result
\* and the head of the ledger) carries the fields fixed at the click that
\* submitted it: label "impostor" if impostor mode was on at the click and
\* "genuine" otherwise, the notes text of the click trimmed (absent when
\* the trimmed text is empty), and the alias of the participant selected
\* at the click (its id when it has no alias), whatever impostor mode,
\* notes and selection are when the call resolves.
C26_AttemptCarriesClickFields ==
    [][nextId' # nextId =>
          /\ atClick # None
          /\ latestVerify' # None
          /\ attemptLogs'[1] = latestVerify'[1]
          /\ latestVerify'[1].label =
                (IF atClick[1].impostor THEN "impostor" ELSE "genuine")
          /\ latestVerify'[1].notes =
                (IF Trim(atClick[1].notes) = "" THEN Undefined
                 ELSE Trim(atClick[1].notes))
          /\ latestVerify'[1].alias =
                (IF atClick[1].participant = None THEN Undefined
                 ELSE IF atClick[1].participant[1].alias # Undefined
                      THEN atClick[1].participant[1].alias
                      ELSE atClick[1].participant[1].id)]_vars

\* a call submitted in impostor mode with notes " Al " for one participant
\* has resolved after impostor mode was switched off and another
\* participant was selected, and the attempt carries what the click had
C26_Witness ==
    /\ lastOp = "success"
    /\ atClick # None
    /\ atClick[1].impostor
    /\ atClick[1].notes = " Al "
    /\ atClick[1].participant # None
    /\ selectedParticipantId # None
    /\ selectedParticipantId[1] # atClick[1].participant[1].id
    /\ ~impostorMode
    /\ latestVerify # None
    /\ latestVerify[1].label = "impostor"
    /\ latestVerify[1].notes = "Al"
    /\ latestVerify[1].alias = atClick[1].participant[1].id

\* C27: the latest result, when there is one, is the head of the attempt
\* ledger, field for field; and a relabeling from the panel targets the
\* id of the latest result: it changes the ledger's records of that id
\* only, and gives the latest result and the head the chosen label and the
\* trimmed notes of the panel.
C27_LatestIsLedgerHead ==
    /\ [](latestVerify # None =>
             /\ attemptLogs # <<>>
             /\ latestVerify[1] = attemptLogs[1])
    /\ [][\A label \in Labels :
             handleLabelChange(label) =>
                /\ latestVerify'[1].id = latestVerify[1].id
                /\ latestVerify'[1].label = label
                /\ latestVerify'[1].notes = TrimmedNotes(panelNotes)
                /\ Len(attemptLogs') = Len(attemptLogs)
                /\ \A k \in 1..Len(attemptLogs) :
                      attemptLogs[k].id # latestVerify[1].id =>
                         attemptLogs'[k] = attemptLogs[k]]_vars

\* two attempts are in the ledger, and the panel has relabeled the latest
\* one against the label it was submitted with, the older one keeping its
\* label
C27_Witness ==
    /\ lastOp = "relabelHit"
    /\ Len(attemptLogs) = 2
    /\ latestVerify # None
    /\ latestVerify[1] = attemptLogs[1]
    /\ latestVerify[1].label = "impostor"
    /\ attemptLogs[2].label = "genuine"



(***************************************************************************)
(* Claims about the steps of the enrollment wizard, for a wizard that      *)
(* stays mounted: C28 under SpecWizard, C29 under SpecWizardFair.          *)
(***************************************************************************)
\* the step pairs the wizard may move along
StepMoves ==
    { <<"instructions", "capture">>, <<"capture", "summary">>,
      <<"capture", "instructions">>, <<"summary", "capture">> }

C29_LeavesCapture ==
    /\ (WizardMounted /\ step = "capture") ~>
          (~WizardMounted \/ step # "capture")
    /\ [][(WizardMounted /\ WizardMounted' /\ step = "capture"
              /\ step' # "capture") =>
             \/ step' = "summary" /\ outcome' = "succeeded"
             \/ step' = "instructions" /\ outcome' = "failed"]_vars

\* the 30 seconds of the capture are over and the wizard waits in capture
\* for its call to return
C29_Witness ==
    /\ WizardMounted
    /\ step = "capture"
    /\ captureComplete
    /\ progress = CAPTURE_DURATION_MS
    /\ awaiting
    /\ collectPending



(***************************************************************************)
(* The session list between the sessions query and the collect mutation    *)
(* (src/unnamed/part_004, lines 66-69, 109-125, 187-189).  The backend is  *)
(* the environment: it keeps the sessions it has collected, lists them to  *)
(* GET /api/ecg-auth/sessions, and a POST /api/ecg-auth/collect-session    *)
(* stores the new session and then answers with it.  The answers of the    *)
(* two requests travel independently and arrive in either order.           *)
(***************************************************************************)
\* "Refresh data": sessionsQuery.refetch() starts a fetch; the result of a
\* fetch it supersedes is not used
RefreshClicked ==
    /\ fetchPending' = TRUE
    /\ fetchAnswer' = None
    /\ UNCHANGED <<backend, collectAnswer>>

\* the backend answers the fetch in flight with the list it holds now
BackendListsSessions ==
    /\ fetchPending
    /\ fetchAnswer = None
    /\ fetchAnswer' = Some(backend)
    /\ UNCHANGED <<backend, fetchPending, collectAnswer>>

\* the answer of the fetch arrives and becomes sessionsQuery.data
FetchArrives ==
    /\ fetchPending
    /\ fetchAnswer # None
    /\ FetchSessionsResolves(fetchAnswer[1])
    /\ fetchPending' = FALSE
    /\ fetchAnswer' = None
    /\ UNCHANGED <<backend, collectAnswer>>

\* the backend stores the session of the collect call in flight and
\* answers with it
BackendCollects ==
    /\ collectPending
    /\ collectAnswer = None
    /\ backend' = Append(backend, SessionRecordOf(CollectedSession))
    /\ collectAnswer' = Some(CollectedSession)
    /\ UNCHANGED <<fetchPending, fetchAnswer>>

\* the answer of the collect call arrives: collectMutation.onSuccess
CollectArrives ==
    /\ collectAnswer # None
    /\ CollectSucceeds(collectAnswer[1])
    /\ collectAnswer' = None
    /\ UNCHANGED <<backend, fetchPending, fetchAnswer>>

\* the backend rejects the collect call and stores nothing
CollectRejected(rejection) ==
    /\ collectAnswer = None
    /\ CollectFails(rejection)
    /\ UNCHANGED fetchVars

\* the sessions the backend holds at the start
StoredSessions == << Session(1, "user-a", Some(300)) >>

\* the console after its first render: the sessions query is fetching
InitSessions ==
    /\ AppInit
    /\ AnaIdle
    /\ NormIdle
    /\ RosterInit
    /\ CollectInit
    /\ WizardInit
    /\ CallsIdle
    /\ MonitorInit
    /\ HookIdle
    /\ PanelIdle
    /\ backend = StoredSessions
    /\ fetchPending = TRUE
    /\ fetchAnswer = None
    /\ collectAnswer = None

NextSessions ==
    \/ \E tab \in WizardTabs :
          /\ TabClicked(tab)
          /\ UNCHANGED <<anaVars, normVars, sideVars>>
    \/ /\ RefreshClicked
       /\ UNCHANGED <<appVars, histVars, anaVars, normVars, consoleVars>>
       /\ UNCHANGED <<inFlight, monVars, hookVars, panelVars>>
    \/ /\ BackendListsSessions
       /\ UNCHANGED <<appVars, histVars, anaVars, normVars, consoleVars>>
       /\ UNCHANGED <<inFlight, monVars, hookVars, panelVars>>
    \/ /\ FetchArrives
       /\ UNCHANGED <<appVars, histVars, anaVars, normVars>>
       /\ UNCHANGED <<collectVars, wizVars, monVars, hookVars, panelVars>>
    \/ \E button \in CaptureButtons :
          /\ collected < MaxCaptures
          /\ CaptureClicked(button)
          /\ UNCHANGED <<anaVars, normVars, sideVars>>
    \/ \E elapsed \in {CAPTURE_DURATION_MS} :
          /\ Tick(elapsed)
          /\ UNCHANGED <<anaVars, normVars, sideVars>>
    \/ /\ BackendCollects
       /\ UNCHANGED <<appVars, histVars, anaVars, normVars, consoleVars>>
       /\ UNCHANGED <<inFlight, monVars, hookVars, panelVars>>
    \/ /\ CollectArrives
       /\ UNCHANGED <<anaVars, normVars, monVars, hookVars, panelVars>>
    \/ \E rejection \in Rejections :
          /\ CollectRejected(rejection)
          /\ UNCHANGED <<anaVars, normVars, monVars, hookVars, panelVars>>

SpecSessions == InitSessions /\ [][NextSessions]_vars

\* the documentIds of the records of a list, one per record
DocumentIds(list) == {list[k].documentId : k \in 1..Len(list)}

\* C30: sessionsQuery.data never holds two records with the same
\* documentId, and no participant of the roster has a sessionCount above
\* the number of that participant's sessions the backend has stored.
C30_NoDuplicateSessions ==
    sessions # None =>
       /\ Cardinality(DocumentIds(sessions[1])) = Len(sessions[1])
       /\ \A k \in 1..Len(participants) :
             participants[k].sessionCount <=
                Cardinality({n \in 1..Len(backend) :
                                backend[n].fitbitUserId = participants[k].id})

====
